---- MODULE Spec2Model ----
(***************************************************************************)
(* Identity and access control of the CloudStorage backend:                *)
(*   - utils/jwt.js        token issuance and verification                 *)
(*   - middleware/auth.js  authenticate                                    *)
(*   - routes/auth.js      register, login, refresh, logout, profile,      *)
(*                         change-password, Google OAuth callback          *)
(*   - config/passport.js  Google strategy (link or create the account)    *)
(*   - models/File.js      shareWith, unshareWith, softDelete, hasAccess   *)
(*                                                                         *)
(* Spec        : the authentication gateway, one request at a time.        *)
(* RaceSpec    : POST /refresh handlers interleaved at their awaits.       *)
(* SignupSpec  : register and the Google callback interleaved.             *)
(* SessionSpec : the writers of the stored refresh token, with history.    *)
(* TokenSpec   : utils/jwt.js under every configuration of the secrets.    *)
(* FileSpec    : the File model's methods over the File collection.        *)
(* ShareSpec   : shareWith / unshareWith callers interleaved at save().    *)
(* RouteSpec   : the file routes behind authenticate and optionalAuth.     *)
(* FaultSpec   : register and the Google callback with a save rejected.    *)
(* ClientSpec  : the browser's axios interceptors and AuthProvider.        *)
(* HeaderSpec  : requests that carry an authorization header and a cookie. *)
(* StormSpec   : the browser's interceptor against the server's /refresh.  *)
(* ProfileSpec : PUT /profile with every request body.                     *)
(***************************************************************************)
EXTENDS Integers, Sequences, FiniteSets, TLC

VARIABLES
    users,        \* the User collection: _id -> document
    now,          \* the clock, whole seconds
    procs,        \* POST /refresh handlers between their two awaits
    resp,         \* the last response sent, with what the request met
    issued,       \* the token pairs handed to clients so far
    lastRotated,  \* the refresh token the last successful refresh consumed
    pwChanged,    \* per user: change-password was called with the right current
                  \* password, and no token pair was issued to the user since
    files,        \* the File collection: _id -> document
    env,          \* process.env: the two signing secrets
    ghost,        \* history kept for the properties, see NoGhost
    client        \* the browser: the provider's state, the token stores and
                  \* the API requests in flight

vars == <<users, now, procs, resp, issued, lastRotated, pwChanged, files, env, ghost,
          client>>

(***************************************************************************)
(* Bounds of the model.                                                    *)
(***************************************************************************)
\* the clock runs over 0..MaxTime
MaxTime == 2
\* in RouteSpec the clock runs over 0..RouteMaxTime
RouteMaxTime == 1

(***************************************************************************)
(* Configuration (process.env) of the modelled deployment: the two token   *)
(* lifetimes in seconds and the two signing secrets.                       *)
(***************************************************************************)
JWT_EXPIRES_IN == 1
JWT_REFRESH_EXPIRES_IN == 2
JWT_SECRET == env.JWT_SECRET
JWT_REFRESH_SECRET == env.JWT_REFRESH_SECRET
\* the values a deployment may configure for either secret
Secrets == {"secretA", "secretB"}
\* the deployment of Spec, RaceSpec and FileSpec
DefaultEnv == [JWT_SECRET |-> "secretA", JWT_REFRESH_SECRET |-> "secretB"]

Emails == {"a@x.com", "b@x.com"}
\* the e-mails that sign up in Spec; the others stay unknown to the server
Members == {"a@x.com"}
UserIds == 1..Cardinality(Emails)
NoId == 0
Passwords == {"Passw0rd1", "Passw0rd2"}
GoogleIds == {"g1", "g2"}
Procs == {"h1", "h2"}
Null == "null"
\* FileSpec: the ids of the File documents, and of the users that own them,
\* are granted them or ask for them
FileIds == {1}
ActorIds == {1, 2, 3}
Permissions == {"read", "write"}

(***************************************************************************)
(* utils/jwt.js.  A token is the signed payload: jwt.sign is deterministic *)
(* in (payload, secret), and the payload carries iat in whole seconds, so  *)
(* two tokens signed for the same user with the same type in the same      *)
(* second are the same string.                                             *)
(***************************************************************************)
NullToken == [userId |-> NoId, type |-> "null", iat |-> 0, exp |-> 0, key |-> "none"]
\* a string that is no token this server signed
ForgedToken == [userId |-> 1, type |-> "access", iat |-> 0, exp |-> MaxTime + 1, key |-> "forged"]

\* generateAccessToken, but signed with the refresh secret
generateAccessTokenRefreshSecret(userId, t) ==
    [userId |-> userId, type |-> "access", iat |-> t,
     exp |-> t + JWT_EXPIRES_IN, key |-> JWT_REFRESH_SECRET]

generateAccessToken(userId, t) ==
    [userId |-> userId, type |-> "access", iat |-> t,
     exp |-> t + JWT_EXPIRES_IN, key |-> JWT_SECRET]

generateRefreshToken(userId, t) ==
    [userId |-> userId, type |-> "refresh", iat |-> t,
     exp |-> t + JWT_REFRESH_EXPIRES_IN, key |-> JWT_REFRESH_SECRET]

generateTokenPair(userId, t) ==
    [accessToken |-> generateAccessToken(userId, t),
     refreshToken |-> generateRefreshToken(userId, t)]

NoTokens == [accessToken |-> NullToken, refreshToken |-> NullToken]

\* jsonwebtoken's verify: the signature first, then the expiry
\* (clockTimestamp >= exp is expired).  Returns the name of the error thrown.
jwtVerify(token, secret, t) ==
    IF token.key # secret THEN "JsonWebTokenError"
    ELSE IF t >= token.exp THEN "TokenExpiredError"
    ELSE "ok"

\* The catch block rethrows every failure as a plain Error with one message.
verifyAccessToken(token, t) ==
    LET e == jwtVerify(token, JWT_SECRET, t) IN
    IF e = "ok" /\ token.type = "access"
    THEN [ok |-> TRUE, name |-> "none", message |-> "none"]
    ELSE [ok |-> FALSE, name |-> "Error", message |-> "Invalid access token"]

\* verifyRefreshToken, but the payload's type is not looked at
verifyRefreshTokenAnyType(token, t) ==
    LET e == jwtVerify(token, JWT_REFRESH_SECRET, t) IN
    IF e = "ok"
    THEN [ok |-> TRUE, name |-> "none", message |-> "none"]
    ELSE [ok |-> FALSE, name |-> "Error", message |-> "Invalid refresh token"]

verifyRefreshToken(token, t) ==
    LET e == jwtVerify(token, JWT_REFRESH_SECRET, t) IN
    IF e = "ok" /\ token.type = "refresh"
    THEN [ok |-> TRUE, name |-> "none", message |-> "none"]
    ELSE [ok |-> FALSE, name |-> "Error", message |-> "Invalid refresh token"]

(***************************************************************************)
(* models/User.js (not among the sources): the password hash and its       *)
(* verification, as the specification describes them.                      *)
(***************************************************************************)
hashPassword(plain) == "bcrypt$" \o plain

\* false for a document that carries no hash
comparePassword(doc, candidate) ==
    doc.password # Null /\ doc.password = hashPassword(candidate)

NoUser == [email |-> Null, password |-> Null, googleId |-> Null,
           isEmailVerified |-> FALSE, isActive |-> FALSE, role |-> "user",
           refreshToken |-> NullToken, exists |-> FALSE,
           name |-> Null, preferences |-> Null]

newUser(email, password, googleId, verified) ==
    [email |-> email, password |-> password, googleId |-> googleId,
     isEmailVerified |-> verified, isActive |-> TRUE, role |-> "user",
     refreshToken |-> NullToken, exists |-> TRUE,
     name |-> "Ann", preferences |-> "system"]

Existing == {u \in UserIds : users[u].exists}

findByEmail(email) == {u \in Existing : users[u].email = email}

findByGoogleId(g) == {u \in Existing : users[u].googleId = g}

\* the _id the next created document gets
freshId == CHOOSE u \in UserIds : ~users[u].exists /\ \A v \in UserIds : v < u => users[v].exists


\* the tokens a client can present: what the server handed out, a forgery, none
IssuedAccess == {p.accessToken : p \in issued}
IssuedRefresh == {p.refreshToken : p \in issued}
Presentable == IssuedAccess \cup IssuedRefresh \cup {ForgedToken, NullToken}

\* what a presented token is, told from what was issued and the clock alone
classAccess(token) ==
    IF token = NullToken THEN "none"
    ELSE IF token \notin IssuedAccess THEN "foreign"
    ELSE IF now >= token.iat + JWT_EXPIRES_IN THEN "expired"
    ELSE "live"

classRefresh(token) ==
    IF token = NullToken THEN "none"
    ELSE IF token \notin IssuedRefresh THEN "foreign"
    ELSE IF now >= token.iat + JWT_REFRESH_EXPIRES_IN THEN "expired"
    ELSE "live"

NoFile == [exists |-> FALSE, owner |-> NoId, isPublic |-> FALSE,
           sharedWith |-> <<>>, isDeleted |-> FALSE]

\* a change to a sharedWith list: kind is "share" or "unshare"
NoEdit == [kind |-> "none", user |-> NoId, permission |-> "none"]

NoResp == [op |-> "none", code |-> "none", uid |-> NoId, tokens |-> NoTokens,
           cls |-> "none", found |-> FALSE, active |-> FALSE, pwdOk |-> FALSE,
           matched |-> FALSE, docActive |-> FALSE,
           replay |-> FALSE, stale |-> FALSE, raced |-> FALSE,
           superseded |-> FALSE, afterLogout |-> FALSE, token |-> NullToken,
           file |-> NoId, files |-> {}, gone |-> FALSE, access |-> FALSE,
           isOwner |-> FALSE, isAdmin |-> FALSE, wrote |-> FALSE,
           edit |-> NoEdit, other |-> NoEdit,
           bearer |-> NullToken, cookie |-> NullToken,
           bearerCls |-> "none", cookieCls |-> "none", extra |-> FALSE]

IdleProc == [pc |-> "idle", token |-> NullToken, uid |-> NoId, user |-> NoUser,
             code |-> "none", cls |-> "none",
             replay |-> FALSE, stale |-> FALSE, raced |-> FALSE,
             superseded |-> FALSE, afterLogout |-> FALSE,
             email |-> Null, googleId |-> Null,
             file |-> NoId, doc |-> NoFile, edit |-> NoEdit, other |-> NoEdit]

\* what a handler leaves behind: the documents it saved, the code it answered
\* with, the user it acted for and the token pair it returned
Outcome(code, uid, docs, tokens) ==
    [code |-> code, uid |-> uid, users |-> docs, tokens |-> tokens]

\* superseded: the refresh token that was stored on the user when the last
\*             successful login overwrote it
\* loggedOut : per user, a logout succeeded and no login, register or Google
\*             callback has succeeded for the user since
\* again     : the last request was a logout and so was the one before it
\* uploader  : per file, the user whose upload created it
\* a request of the browser that was not sent yet
\* retry     : original._retry
\* sends     : how many times the request went to the server
\* refreshes : how many POST /auth/refresh the interceptor sent for it
\* byCookie  : its first 401 met a logged-in client that held its tokens in
\*             cookies only
\* cleared   : the interceptor removed the stored tokens because of it
\* event     : the interceptor dispatched auth:logout because of it
\* access    : the access token its Authorization header carries
\* refresh   : the refresh token the interceptor posted for it
\* held      : at its first 401 the client's refresh token was the one stored
\*             on the server for its user
\* cls       : what the posted refresh token was when the server refused it
NoRequest == [pc |-> "idle", retry |-> FALSE, sends |-> 0, refreshes |-> 0,
              status |-> 0, byCookie |-> FALSE, cleared |-> FALSE, event |-> FALSE,
              access |-> NullToken, refresh |-> NullToken, held |-> FALSE,
              cls |-> "none"]

ClientReqs == {"q1", "q2"}

\* authenticated : AuthProvider's isAuthenticated
\* cookies       : the accessToken / refreshToken cookies the server set
\* local         : accessToken / refreshToken are in localStorage
\* tokens        : the pair in localStorage, where the model follows its values
NoClient == [authenticated |-> FALSE, cookies |-> FALSE, local |-> FALSE,
             tokens |-> NoTokens,
             reqs |-> [q \in ClientReqs |-> NoRequest]]

NoGhost == [superseded |-> NullToken, loggedOut |-> [u \in UserIds |-> FALSE],
            again |-> FALSE, uploader |-> [f \in FileIds |-> NoId]]

Init ==
    /\ env = DefaultEnv
    /\ ghost = NoGhost
    /\ client = NoClient
    /\ users = [u \in UserIds |-> NoUser]
    /\ now = 0
    /\ procs = [p \in Procs |-> IdleProc]
    /\ resp = NoResp
    /\ issued = {}
    /\ lastRotated = NullToken
    /\ pwChanged = [u \in UserIds |-> FALSE]
    /\ files = [f \in FileIds |-> NoFile]

\* the handler's saves reach the database and its answer reaches the client
Answer(o, r) ==
    /\ users' = o.users
    /\ resp' = [r EXCEPT !.code = o.code, !.uid = o.uid, !.tokens = o.tokens,
                         !.active = (o.uid # NoId /\ o.users[o.uid].isActive)]
    /\ issued' = IF o.tokens = NoTokens THEN issued ELSE issued \cup {o.tokens}

\* bookkeeping of pwChanged for the handlers other than change-password
Reissue(o) ==
    pwChanged' = IF o.tokens = NoTokens THEN pwChanged
                 ELSE [pwChanged EXCEPT ![o.uid] = FALSE]

(***************************************************************************)
(* routes/auth.js                                                          *)
(***************************************************************************)
\* POST /register with a body that passes validateRegistration
register(email, password) ==
    IF findByEmail(email) # {}
    THEN Outcome("USER_EXISTS", NoId, users, NoTokens)
    ELSE LET id == freshId
             tokens == generateTokenPair(id, now)
             doc == newUser(email, hashPassword(password), Null, FALSE) IN
         Outcome("OK", id,
                 [users EXCEPT ![id] = [doc EXCEPT !.refreshToken = tokens.refreshToken]],
                 tokens)

Register(email, password) ==
    LET o == register(email, password) IN
    /\ Answer(o, [NoResp EXCEPT !.op = "register", !.found = (findByEmail(email) # {})])
    /\ Reissue(o)
    /\ UNCHANGED <<now, procs, lastRotated, files>>

\* login, but an unknown e-mail gets a code of its own
loginLeaky(email, password) ==
    IF findByEmail(email) = {}
    THEN Outcome("USER_NOT_FOUND", NoId, users, NoTokens)
    ELSE LET id == CHOOSE u \in findByEmail(email) : TRUE
             user == users[id] IN
         IF ~user.isActive
         THEN Outcome("ACCOUNT_DEACTIVATED", id, users, NoTokens)
         ELSE IF ~comparePassword(user, password)
         THEN Outcome("INVALID_CREDENTIALS", id, users, NoTokens)
         ELSE LET tokens == generateTokenPair(id, now) IN
              Outcome("OK", id,
                      [users EXCEPT ![id].refreshToken = tokens.refreshToken], tokens)

\* POST /login with a body that passes validateLogin
login(email, password) ==
    IF findByEmail(email) = {}
    THEN Outcome("INVALID_CREDENTIALS", NoId, users, NoTokens)
    ELSE LET id == CHOOSE u \in findByEmail(email) : TRUE
             user == users[id] IN
         IF ~user.isActive
         THEN Outcome("ACCOUNT_DEACTIVATED", id, users, NoTokens)
         ELSE IF ~comparePassword(user, password)
         THEN Outcome("INVALID_CREDENTIALS", id, users, NoTokens)
         ELSE LET tokens == generateTokenPair(id, now) IN
              Outcome("OK", id,
                      [users EXCEPT ![id].refreshToken = tokens.refreshToken], tokens)

Login(email, password) ==
    LET o == login(email, password)
        found == findByEmail(email) IN
    /\ Answer(o, [NoResp EXCEPT !.op = "login",
                     !.found = (found # {}),
                     !.pwdOk = (\E u \in found : users[u].password = hashPassword(password))])
    /\ Reissue(o)
    /\ UNCHANGED <<now, procs, lastRotated, files>>

(***************************************************************************)
(* POST /refresh.  The handler awaits User.findById between verifying the  *)
(* presented token and comparing it with the stored one, and awaits        *)
(* user.save() before it answers; other requests run at both awaits.       *)
(***************************************************************************)
\* lines 203-224: extract the token, verify it, load the user document
refreshLoad(token) ==
    LET v == verifyRefreshToken(token, now) IN
    IF token = NullToken
    THEN [IdleProc EXCEPT !.pc = "done", !.token = token, !.code = "NO_REFRESH_TOKEN"]
    ELSE IF ~v.ok
    THEN [IdleProc EXCEPT !.pc = "done", !.token = token,
             !.code = IF v.message = "Invalid refresh token"
                      THEN "INVALID_REFRESH_TOKEN" ELSE "REFRESH_ERROR"]
    ELSE [IdleProc EXCEPT !.pc = "loaded", !.token = token, !.uid = token.userId,
             !.user = users[token.userId]]

\* refreshRespond, but the active flag is looked at before the stored token
refreshRespondActiveFirst(me) ==
    IF me.pc = "done"
    THEN Outcome(me.code, NoId, users, NoTokens)
    ELSE IF me.user.exists /\ ~me.user.isActive
    THEN Outcome("ACCOUNT_DEACTIVATED", me.uid, users, NoTokens)
    ELSE IF ~me.user.exists \/ me.user.refreshToken # me.token
    THEN Outcome("INVALID_REFRESH_TOKEN", me.uid, users, NoTokens)
    ELSE LET tokens == generateTokenPair(me.uid, now) IN
         Outcome("OK", me.uid,
                 [users EXCEPT ![me.uid].refreshToken = tokens.refreshToken], tokens)

\* refreshRespond, but a verified token that is not the stored one revokes the
\* stored one
refreshRespondRevoking(me) ==
    IF me.pc = "done"
    THEN Outcome(me.code, NoId, users, NoTokens)
    ELSE IF ~me.user.exists \/ me.user.refreshToken # me.token
    THEN Outcome("INVALID_REFRESH_TOKEN", me.uid,
                 [users EXCEPT ![me.uid].refreshToken = NullToken], NoTokens)
    ELSE IF ~me.user.isActive
    THEN Outcome("ACCOUNT_DEACTIVATED", me.uid, users, NoTokens)
    ELSE LET tokens == generateTokenPair(me.uid, now) IN
         Outcome("OK", me.uid,
                 [users EXCEPT ![me.uid].refreshToken = tokens.refreshToken], tokens)

\* lines 225-253: compare with the stored value, rotate, save, answer
refreshRespond(me) ==
    IF me.pc = "done"
    THEN Outcome(me.code, NoId, users, NoTokens)
    ELSE IF ~me.user.exists \/ me.user.refreshToken # me.token
    THEN Outcome("INVALID_REFRESH_TOKEN", me.uid, users, NoTokens)
    ELSE IF ~me.user.isActive
    THEN Outcome("ACCOUNT_DEACTIVATED", me.uid, users, NoTokens)
    ELSE LET tokens == generateTokenPair(me.uid, now) IN
         Outcome("OK", me.uid,
                 [users EXCEPT ![me.uid].refreshToken = tokens.refreshToken], tokens)

\* what the request met when it arrived
arrival(token) ==
    [refreshLoad(token) EXCEPT
        !.cls = classRefresh(token),
        !.replay = (token \in IssuedRefresh /\ token = lastRotated),
        !.stale = (token \in IssuedRefresh /\ pwChanged[token.userId]),
        !.superseded = (token \in IssuedRefresh /\ token = ghost.superseded),
        !.afterLogout = (token \in IssuedRefresh /\ ghost.loggedOut[token.userId])]

RefreshAnswer(me) ==
    LET o == refreshRespond(me) IN
    /\ Answer(o, [NoResp EXCEPT !.op = "refresh", !.cls = me.cls,
                     !.matched = (me.user.refreshToken = me.token),
                     !.docActive = me.user.isActive,
                     !.replay = me.replay, !.stale = me.stale, !.raced = me.raced,
                     !.superseded = me.superseded, !.afterLogout = me.afterLogout])
    /\ Reissue(o)
    /\ lastRotated' = IF o.code = "OK" THEN me.token ELSE lastRotated

\* the whole handler, no other request running between its awaits
Refresh(token) ==
    /\ RefreshAnswer(arrival(token))
    /\ UNCHANGED <<now, procs, files>>

\* the handler answers before its first await: no token, or one that fails to verify
RefreshReject(token) ==
    /\ arrival(token).pc = "done"
    /\ Refresh(token)

\* the handler up to its first await
RefreshLoad(p, token) ==
    /\ procs[p].pc = "idle"
    /\ arrival(token).pc = "loaded"
    /\ procs' = [procs EXCEPT ![p] = arrival(token)]
    /\ UNCHANGED <<users, now, resp, issued, lastRotated, pwChanged, files>>

\* the handler from its first await on
RefreshRespond(p) ==
    /\ procs[p].pc = "loaded"
    /\ RefreshAnswer(procs[p])
    /\ procs' = [q \in Procs |->
                    IF q = p THEN IdleProc
                    ELSE IF /\ procs[q].pc = "loaded"
                            /\ procs[q].token = procs[p].token
                            /\ refreshRespond(procs[p]).code = "OK"
                         THEN [procs[q] EXCEPT !.raced = TRUE]
                         ELSE procs[q]]
    /\ UNCHANGED <<now, files>>

(***************************************************************************)
(* middleware/auth.js                                                      *)
(***************************************************************************)
\* the document authenticate attaches: loaded with select('-password')
reqUser(uid) == [users[uid] EXCEPT !.password = Null]

\* authenticate, but the isActive flag of the loaded user is not looked at
authenticateAnyUser(token) ==
    IF token = NullToken THEN [code |-> "NO_TOKEN", uid |-> NoId]
    ELSE LET v == verifyAccessToken(token, now) IN
         IF ~v.ok
         THEN [code |-> "INVALID_TOKEN", uid |-> NoId]
         ELSE IF ~users[token.userId].exists
         THEN [code |-> "USER_NOT_FOUND", uid |-> NoId]
         ELSE [code |-> "OK", uid |-> token.userId]

\* authenticate, but a user whose stored refresh token is null is turned away
authenticateWithSession(token) ==
    IF token = NullToken THEN [code |-> "NO_TOKEN", uid |-> NoId]
    ELSE LET v == verifyAccessToken(token, now) IN
         IF ~v.ok
         THEN IF v.message = "Invalid access token" \/ v.name = "JsonWebTokenError"
              THEN [code |-> "INVALID_TOKEN", uid |-> NoId]
              ELSE IF v.name = "TokenExpiredError"
              THEN [code |-> "TOKEN_EXPIRED", uid |-> NoId]
              ELSE [code |-> "AUTH_ERROR", uid |-> NoId]
         ELSE IF ~users[token.userId].exists
         THEN [code |-> "USER_NOT_FOUND", uid |-> NoId]
         ELSE IF ~users[token.userId].isActive
         THEN [code |-> "ACCOUNT_DEACTIVATED", uid |-> NoId]
         ELSE IF users[token.userId].refreshToken = NullToken
         THEN [code |-> "INVALID_TOKEN", uid |-> NoId]
         ELSE [code |-> "OK", uid |-> token.userId]

\* the code authenticate answers with, "OK" when it calls next()
authenticate(token) ==
    IF token = NullToken THEN [code |-> "NO_TOKEN", uid |-> NoId]
    ELSE LET v == verifyAccessToken(token, now) IN
         IF ~v.ok
         THEN IF v.message = "Invalid access token" \/ v.name = "JsonWebTokenError"
              THEN [code |-> "INVALID_TOKEN", uid |-> NoId]
              ELSE IF v.name = "TokenExpiredError"
              THEN [code |-> "TOKEN_EXPIRED", uid |-> NoId]
              ELSE [code |-> "AUTH_ERROR", uid |-> NoId]
         ELSE IF ~users[token.userId].exists
         THEN [code |-> "USER_NOT_FOUND", uid |-> NoId]
         ELSE IF ~users[token.userId].isActive
         THEN [code |-> "ACCOUNT_DEACTIVATED", uid |-> NoId]
         ELSE [code |-> "OK", uid |-> token.userId]

\* logout, but a user whose stored refresh token is already null is refused
logoutOnce(token) ==
    LET a == authenticate(token) IN
    IF a.code # "OK" THEN Outcome(a.code, NoId, users, NoTokens)
    ELSE IF users[a.uid].refreshToken = NullToken
    THEN Outcome("LOGOUT_ERROR", a.uid, users, NoTokens)
    ELSE Outcome("OK", a.uid, [users EXCEPT ![a.uid].refreshToken = NullToken], NoTokens)

\* POST /logout
logout(token) ==
    LET a == authenticate(token) IN
    IF a.code # "OK" THEN Outcome(a.code, NoId, users, NoTokens)
    ELSE Outcome("OK", a.uid, [users EXCEPT ![a.uid].refreshToken = NullToken], NoTokens)

Logout(token) ==
    /\ Answer(logout(token), [NoResp EXCEPT !.op = "logout", !.cls = classAccess(token)])
    /\ UNCHANGED <<now, procs, lastRotated, pwChanged, files>>

\* GET /profile
getProfile(token) ==
    LET a == authenticate(token) IN
    Outcome(a.code, a.uid, users, NoTokens)

GetProfile(token) ==
    /\ Answer(getProfile(token), [NoResp EXCEPT !.op = "profile", !.cls = classAccess(token)])
    /\ UNCHANGED <<now, procs, lastRotated, pwChanged, files>>

\* PUT /change-password with a body that passes validation
changePassword(token, currentPassword, newPassword) ==
    LET a == authenticate(token) IN
    IF a.code # "OK" THEN Outcome(a.code, NoId, users, NoTokens)
    ELSE IF ~comparePassword(reqUser(a.uid), currentPassword)
    THEN Outcome("INVALID_CURRENT_PASSWORD", a.uid, users, NoTokens)
    ELSE Outcome("OK", a.uid,
                 [users EXCEPT ![a.uid].password = hashPassword(newPassword),
                               ![a.uid].refreshToken = NullToken],
                 NoTokens)

ChangePassword(token, currentPassword, newPassword) ==
    LET o == changePassword(token, currentPassword, newPassword)
        right == /\ classAccess(token) = "live"
                 /\ users[token.userId].isActive
                 /\ users[token.userId].password = hashPassword(currentPassword) IN
    /\ Answer(o, [NoResp EXCEPT !.op = "changePassword", !.cls = classAccess(token),
                     !.found = (classAccess(token) = "live" /\
                                users[token.userId].password # Null),
                     !.pwdOk = right])
    /\ pwChanged' = IF right THEN [pwChanged EXCEPT ![token.userId] = TRUE] ELSE pwChanged
    /\ UNCHANGED <<now, procs, lastRotated, files>>

(***************************************************************************)
(* config/passport.js and GET /google/callback                             *)
(***************************************************************************)
\* linkOrCreate, but an account found by its e-mail is not linked: a new one is made
linkOrCreateNeverLinks(g, email) ==
    IF findByGoogleId(g) # {}
    THEN [uid |-> CHOOSE u \in findByGoogleId(g) : TRUE, users |-> users]
    ELSE [uid |-> freshId,
          users |-> [users EXCEPT ![freshId] = newUser(email, Null, g, TRUE)]]

\* linkOrCreate, but the account it creates carries no googleId
linkOrCreateNoGoogleId(g, email) ==
    IF findByGoogleId(g) # {}
    THEN [uid |-> CHOOSE u \in findByGoogleId(g) : TRUE, users |-> users]
    ELSE IF findByEmail(email) # {}
    THEN LET id == CHOOSE u \in findByEmail(email) : TRUE IN
         [uid |-> id,
          users |-> [users EXCEPT ![id].googleId = g, ![id].isEmailVerified = TRUE]]
    ELSE [uid |-> freshId,
          users |-> [users EXCEPT ![freshId] = newUser(email, Null, Null, TRUE)]]

\* the Google strategy's verify callback: the user it passes to done, and
\* the collection after its save
linkOrCreate(g, email) ==
    IF findByGoogleId(g) # {}
    THEN [uid |-> CHOOSE u \in findByGoogleId(g) : TRUE, users |-> users]
    ELSE IF findByEmail(email) # {}
    THEN LET id == CHOOSE u \in findByEmail(email) : TRUE IN
         [uid |-> id,
          users |-> [users EXCEPT ![id].googleId = g, ![id].isEmailVerified = TRUE]]
    ELSE [uid |-> freshId,
          users |-> [users EXCEPT ![freshId] = newUser(email, Null, g, TRUE)]]

\* passport.authenticate('google') with this profile, then the route handler
googleCallback(g, email) ==
    LET r == linkOrCreate(g, email)
        tokens == generateTokenPair(r.uid, now) IN
    Outcome("OK", r.uid,
            [r.users EXCEPT ![r.uid].refreshToken = tokens.refreshToken], tokens)

GoogleCallback(g, email) ==
    LET o == googleCallback(g, email) IN
    /\ Answer(o, [NoResp EXCEPT !.op = "google", !.found = (findByEmail(email) # {})])
    /\ Reissue(o)
    /\ UNCHANGED <<now, procs, lastRotated, files>>

\* the account is soft-disabled (isActive := false) by the database's operator
Deactivate(u) ==
    /\ users[u].exists
    /\ users[u].isActive
    /\ users' = [users EXCEPT ![u].isActive = FALSE]
    /\ UNCHANGED <<now, procs, resp, issued, lastRotated, pwChanged, files>>

\* a second passes
Tick ==
    /\ now < MaxTime
    /\ now' = now + 1
    /\ UNCHANGED <<users, procs, resp, issued, lastRotated, pwChanged, files>>

\* the deployment stays as configured and no history is kept
Untracked == UNCHANGED <<env, ghost, client>>

(***************************************************************************)
(* Spec: the gateway, one request at a time.                               *)
(***************************************************************************)
Next ==
    \/ \E e \in Members, pw \in Passwords : Register(e, pw) /\ Untracked
    \/ \E e \in Emails, pw \in Passwords : Login(e, pw) /\ Untracked
    \/ \E t \in Presentable : Refresh(t) /\ Untracked
    \/ \E t \in Presentable : Logout(t) /\ Untracked
    \/ \E t \in Presentable : GetProfile(t) /\ Untracked
    \/ \E t \in Presentable, c \in Passwords, n \in Passwords : ChangePassword(t, c, n) /\ Untracked
    \/ \E g \in GoogleIds, e \in Members : GoogleCallback(g, e) /\ Untracked
    \/ \E u \in UserIds : Deactivate(u) /\ Untracked
    \/ Tick /\ Untracked

Spec == Init /\ [][Next]_vars

(***************************************************************************)
(* RaceSpec: refresh handlers interleaved at their awaits with each other  *)
(* and with the requests that write the stored refresh token.              *)
(***************************************************************************)
RaceNext ==
    \/ \E e \in Members : Register(e, "Passw0rd1") /\ Untracked
    \/ \E e \in Members : Login(e, "Passw0rd1") /\ Untracked
    \/ \E t \in Presentable : RefreshReject(t) /\ Untracked
    \/ \E p \in Procs, t \in IssuedRefresh : RefreshLoad(p, t) /\ Untracked
    \/ \E p \in Procs : RefreshRespond(p) /\ Untracked
    \/ \E u \in UserIds : Deactivate(u) /\ Untracked
    \/ Tick /\ Untracked

RaceSpec == Init /\ [][RaceNext]_vars

(***************************************************************************)
(* SignupSpec: POST /register and the Google strategy's verify callback,   *)
(* interleaved at their awaits.  The users collection carries the unique   *)
(* index on email and the sparse unique index on googleId, so a save that  *)
(* would break either throws a duplicate-key error.                        *)
(***************************************************************************)
\* the password of the sign-ups in SignupSpec
SignupPassword == "Passw0rd1"

\* the indexes let nothing be refused
indexesAdmitAll(doc, self) == TRUE

\* the indexes let doc be written as the document of self (NoId: inserted)
indexesAdmit(doc, self) ==
    \A v \in Existing \ {self} :
        /\ users[v].email # doc.email
        /\ doc.googleId # Null => users[v].googleId # doc.googleId

\* register from its first save on: lines 90-116, and the catch of 118-124
registerSave(me) ==
    LET doc == newUser(me.email, hashPassword(SignupPassword), Null, FALSE) IN
    IF ~indexesAdmit(doc, NoId)
    THEN Outcome("REGISTRATION_ERROR", NoId, users, NoTokens)
    ELSE LET id == freshId
             tokens == generateTokenPair(id, now) IN
         Outcome("OK", id,
                 [users EXCEPT ![id] = [doc EXCEPT !.refreshToken = tokens.refreshToken]],
                 tokens)

\* the verify callback from its save on, then the route handler; an error
\* passed to done ends the request with Express's 500
callbackSave(me) ==
    LET doc == IF me.pc = "cbLink"
               THEN [users[me.uid] EXCEPT !.googleId = me.googleId, !.isEmailVerified = TRUE]
               ELSE newUser(me.email, Null, me.googleId, TRUE)
        self == IF me.pc = "cbLink" THEN me.uid ELSE NoId IN
    IF ~indexesAdmit(doc, self)
    THEN Outcome("INTERNAL_SERVER_ERROR", NoId, users, NoTokens)
    ELSE LET id == IF me.pc = "cbLink" THEN me.uid ELSE freshId
             tokens == generateTokenPair(id, now) IN
         Outcome("OK", id,
                 [users EXCEPT ![id] = [doc EXCEPT !.refreshToken = tokens.refreshToken]],
                 tokens)

\* register up to the await of its first save
RegisterFind(p, email) ==
    /\ procs[p].pc = "idle"
    /\ IF findByEmail(email) # {}
       THEN /\ Answer(register(email, SignupPassword),
                      [NoResp EXCEPT !.op = "register", !.found = TRUE])
            /\ UNCHANGED procs
       ELSE /\ procs' = [procs EXCEPT ![p] =
                            [IdleProc EXCEPT !.pc = "regSave", !.email = email]]
            /\ UNCHANGED <<users, resp, issued>>
    /\ UNCHANGED <<now, lastRotated, pwChanged, files>>

RegisterSave(p) ==
    /\ procs[p].pc = "regSave"
    /\ Answer(registerSave(procs[p]),
              [NoResp EXCEPT !.op = "register",
                             !.raced = (findByEmail(procs[p].email) # {})])
    /\ procs' = [procs EXCEPT ![p] = IdleProc]
    /\ UNCHANGED <<now, lastRotated, pwChanged, files>>

\* the verify callback up to the await of User.findOne({ email })
CallbackFindGoogle(p, g, email) ==
    /\ procs[p].pc = "idle"
    /\ IF findByGoogleId(g) # {}
       THEN /\ Answer(googleCallback(g, email),
                      [NoResp EXCEPT !.op = "google", !.found = (findByEmail(email) # {})])
            /\ UNCHANGED procs
       ELSE /\ procs' = [procs EXCEPT ![p] =
                            [IdleProc EXCEPT !.pc = "cbFindEmail", !.email = email,
                                             !.googleId = g]]
            /\ UNCHANGED <<users, resp, issued>>
    /\ UNCHANGED <<now, lastRotated, pwChanged, files>>

\* the verify callback from User.findOne({ email }) to the await of its save
CallbackFindEmail(p) ==
    /\ procs[p].pc = "cbFindEmail"
    /\ procs' = [procs EXCEPT ![p] =
                    IF findByEmail(procs[p].email) # {}
                    THEN [procs[p] EXCEPT !.pc = "cbLink",
                             !.uid = CHOOSE u \in findByEmail(procs[p].email) : TRUE]
                    ELSE [procs[p] EXCEPT !.pc = "cbCreate"]]
    /\ UNCHANGED <<users, now, resp, issued, lastRotated, pwChanged, files>>

CallbackSave(p) ==
    /\ procs[p].pc \in {"cbLink", "cbCreate"}
    /\ Answer(callbackSave(procs[p]),
              [NoResp EXCEPT !.op = "google", !.found = (procs[p].pc = "cbLink"),
                             !.raced = (callbackSave(procs[p]).code # "OK")])
    /\ procs' = [procs EXCEPT ![p] = IdleProc]
    /\ UNCHANGED <<now, lastRotated, pwChanged, files>>

SignupNext ==
    \/ \E p \in Procs, e \in Emails : RegisterFind(p, e) /\ Untracked
    \/ \E p \in Procs : RegisterSave(p) /\ Untracked
    \/ \E p \in Procs, g \in GoogleIds, e \in Emails : CallbackFindGoogle(p, g, e) /\ Untracked
    \/ \E p \in Procs : CallbackFindEmail(p) /\ Untracked
    \/ \E p \in Procs : CallbackSave(p) /\ Untracked

SignupSpec == Init /\ [][SignupNext]_vars

(***************************************************************************)
(* FaultSpec: register and the Google callback, one request at a time,     *)
(* where a save may be rejected by the database (connection lost, write    *)
(* timed out).  Each handler awaits two saves in a row.                    *)
(***************************************************************************)
\* which of a handler's two saves is rejected
SaveFaults == {"none", "first", "second"}

\* POST /register: lines 78-124
registerWith(email, password, fault) ==
    IF findByEmail(email) # {}
    THEN Outcome("USER_EXISTS", NoId, users, NoTokens)
    ELSE IF fault = "first"
    THEN Outcome("REGISTRATION_ERROR", NoId, users, NoTokens)
    ELSE LET id == freshId
             doc == newUser(email, hashPassword(password), Null, FALSE) IN
         IF fault = "second"
         THEN Outcome("REGISTRATION_ERROR", NoId, [users EXCEPT ![id] = doc], NoTokens)
         ELSE register(email, password)

\* the verify callback, whose save is the first, then the route handler,
\* whose save is the second and whose catch redirects with oauth_callback_failed
googleCallbackWith(g, email, fault) ==
    IF fault = "first"
    THEN Outcome("INTERNAL_SERVER_ERROR", NoId, users, NoTokens)
    ELSE IF fault = "second"
    THEN Outcome("OAUTH_CALLBACK_FAILED", NoId, linkOrCreate(g, email).users, NoTokens)
    ELSE googleCallback(g, email)

RegisterWith(email, fault) ==
    LET o == registerWith(email, SignupPassword, fault) IN
    /\ Answer(o, [NoResp EXCEPT !.op = "register", !.found = (findByEmail(email) # {}),
                                !.wrote = (o.users # users)])
    /\ UNCHANGED <<now, procs, lastRotated, pwChanged, files>>

GoogleCallbackWith(g, email, fault) ==
    LET o == googleCallbackWith(g, email, fault) IN
    /\ Answer(o, [NoResp EXCEPT !.op = "google", !.found = (findByEmail(email) # {}),
                                !.wrote = (o.users # users)])
    /\ UNCHANGED <<now, procs, lastRotated, pwChanged, files>>

FaultNext ==
    \/ \E e \in Emails, x \in SaveFaults : RegisterWith(e, x) /\ Untracked
    \/ \E g \in GoogleIds, e \in Emails, x \in SaveFaults :
           GoogleCallbackWith(g, e, x) /\ Untracked

FaultSpec == Init /\ [][FaultNext]_vars

(***************************************************************************)
(* SessionSpec: the requests that write the stored refresh token, with one *)
(* POST /refresh handler that may be between its awaits meanwhile, and the *)
(* history of the slot kept in ghost.                                      *)
(***************************************************************************)
\* the handler in flight in SessionSpec
SessionProc == "h1"

\* after register, login or the Google callback
Opened(superseded) ==
    ghost' = [superseded |-> superseded,
              loggedOut |-> IF resp'.tokens # NoTokens
                            THEN [ghost.loggedOut EXCEPT ![resp'.uid] = FALSE]
                            ELSE ghost.loggedOut,
              again |-> FALSE, uploader |-> ghost.uploader]

\* after login: the token it overwrote, when the request before it was the
\* login that had issued that token
AfterLogin ==
    Opened(IF /\ resp'.code = "OK"
              /\ resp.op = "login" /\ resp.code = "OK" /\ resp.uid = resp'.uid
              /\ users[resp.uid].refreshToken = resp.tokens.refreshToken
           THEN resp.tokens.refreshToken
           ELSE ghost.superseded)

\* after logout
AfterLogout(token) ==
    ghost' = [ghost EXCEPT
                 !.loggedOut = IF resp'.code = "OK"
                               THEN [@ EXCEPT ![resp'.uid] = TRUE] ELSE @,
                 !.again = (resp.op = "logout" /\ resp.code = "OK" /\ resp.uid = token.userId)]

\* after a step of a refresh handler
AfterRefresh == ghost' = [ghost EXCEPT !.again = FALSE]

SessionNext ==
    \/ \E e \in Members : Register(e, "Passw0rd1") /\ Opened(ghost.superseded) /\ UNCHANGED <<env, client>>
    \/ \E e \in Members : Login(e, "Passw0rd1") /\ AfterLogin /\ UNCHANGED <<env, client>>
    \/ \E t \in Presentable : Refresh(t) /\ AfterRefresh /\ UNCHANGED <<env, client>>
    \/ \E t \in IssuedRefresh : RefreshLoad(SessionProc, t) /\ AfterRefresh /\ UNCHANGED <<env, client>>
    \/ RefreshRespond(SessionProc) /\ AfterRefresh /\ UNCHANGED <<env, client>>
    \/ \E t \in Presentable : Logout(t) /\ AfterLogout(t) /\ UNCHANGED <<env, client>>
    \/ Tick /\ Untracked

SessionSpec == Init /\ [][SessionNext]_vars

(***************************************************************************)
(* TokenSpec: utils/jwt.js on its own, under every configuration of the    *)
(* two secrets, the equal ones included.                                   *)
(***************************************************************************)
TokenInit ==
    /\ env \in [JWT_SECRET : Secrets, JWT_REFRESH_SECRET : Secrets]
    /\ ghost = NoGhost
    /\ client = NoClient
    /\ users = [u \in UserIds |-> NoUser]
    /\ now = 0
    /\ procs = [p \in Procs |-> IdleProc]
    /\ resp = NoResp
    /\ issued = {}
    /\ lastRotated = NullToken
    /\ pwChanged = [u \in UserIds |-> FALSE]
    /\ files = [f \in FileIds |-> NoFile]

\* a route handler calls generateTokenPair and hands the pair to the client
GenerateTokenPair(userId) ==
    /\ issued' = issued \cup {generateTokenPair(userId, now)}
    /\ resp' = [NoResp EXCEPT !.op = "generateTokenPair", !.uid = userId,
                              !.tokens = generateTokenPair(userId, now)]
    /\ UNCHANGED <<users, now, procs, lastRotated, pwChanged, files>>

\* a caller hands a token to verifyAccessToken: the payload, or the message thrown
VerifyAccessToken(token) ==
    LET v == verifyAccessToken(token, now) IN
    /\ resp' = [NoResp EXCEPT !.op = "verifyAccessToken", !.token = token,
                              !.code = IF v.ok THEN "ok" ELSE v.message,
                              !.uid = IF v.ok THEN token.userId ELSE NoId]
    /\ UNCHANGED <<users, now, procs, issued, lastRotated, pwChanged, files>>

VerifyRefreshToken(token) ==
    LET v == verifyRefreshToken(token, now) IN
    /\ resp' = [NoResp EXCEPT !.op = "verifyRefreshToken", !.token = token,
                              !.code = IF v.ok THEN "ok" ELSE v.message,
                              !.uid = IF v.ok THEN token.userId ELSE NoId]
    /\ UNCHANGED <<users, now, procs, issued, lastRotated, pwChanged, files>>

TokenNext ==
    \/ \E u \in UserIds : GenerateTokenPair(u) /\ Untracked
    \/ \E t \in Presentable \ {NullToken} : VerifyAccessToken(t) /\ Untracked
    \/ \E t \in Presentable \ {NullToken} : VerifyRefreshToken(t) /\ Untracked
    \/ Tick /\ Untracked

TokenSpec == TokenInit /\ [][TokenNext]_vars

(***************************************************************************)
(* models/File.js                                                          *)
(***************************************************************************)
\* Array.prototype.filter
RECURSIVE filterOut(_, _)
filterOut(shares, userId) ==
    IF shares = <<>> THEN <<>>
    ELSE IF Head(shares).user = userId THEN filterOut(Tail(shares), userId)
    ELSE <<Head(shares)>> \o filterOut(Tail(shares), userId)

\* Array.prototype.find over share.user.equals(userId): 0 when none matches
RECURSIVE findFrom(_, _, _)
findFrom(shares, userId, i) ==
    IF i > Len(shares) THEN 0
    ELSE IF shares[i].user = userId THEN i
    ELSE findFrom(shares, userId, i + 1)

\* shareWith, but the user's earlier grant is not removed first
shareWithAppend(file, userId, permission) ==
    [file EXCEPT !.sharedWith =
        Append(file.sharedWith, [user |-> userId, permission |-> permission])]

shareWith(file, userId, permission) ==
    [file EXCEPT !.sharedWith =
        Append(filterOut(file.sharedWith, userId),
               [user |-> userId, permission |-> permission])]

\* unshareWith, but every grant is removed
unshareWithAll(file, userId) ==
    [file EXCEPT !.sharedWith = <<>>]

unshareWith(file, userId) ==
    [file EXCEPT !.sharedWith = filterOut(file.sharedWith, userId)]

softDelete(file) == [file EXCEPT !.isDeleted = TRUE]

restore(file) == [file EXCEPT !.isDeleted = FALSE]

\* hasAccess, but any grant satisfies a write
hasAccessAnyGrant(file, userId, requiredPermission) ==
    IF file.owner = userId THEN TRUE
    ELSE IF file.isPublic /\ requiredPermission = "read" THEN TRUE
    ELSE findFrom(file.sharedWith, userId, 1) # 0

\* userId is NoId for the anonymous caller (ObjectId.equals(null) is false)
hasAccess(file, userId, requiredPermission) ==
    IF file.owner = userId THEN TRUE
    ELSE IF file.isPublic /\ requiredPermission = "read" THEN TRUE
    ELSE LET i == findFrom(file.sharedWith, userId, 1) IN
         IF i = 0 THEN FALSE
         ELSE IF requiredPermission = "read"
         THEN file.sharedWith[i].permission \in {"read", "write"}
         ELSE IF requiredPermission = "write"
         THEN file.sharedWith[i].permission = "write"
         ELSE FALSE

\* new File({owner: req.user._id, isPublic, ...}).save() of POST /upload
Upload(f, owner, isPublic) ==
    /\ ~files[f].exists
    /\ files' = [files EXCEPT ![f] =
                    [NoFile EXCEPT !.exists = TRUE, !.owner = owner, !.isPublic = isPublic]]
    /\ UNCHANGED <<users, now, procs, resp, issued, lastRotated, pwChanged>>

ShareWith(f, userId, permission) ==
    /\ files[f].exists
    /\ files' = [files EXCEPT ![f] = shareWith(files[f], userId, permission)]
    /\ UNCHANGED <<users, now, procs, resp, issued, lastRotated, pwChanged>>

UnshareWith(f, userId) ==
    /\ files[f].exists
    /\ files' = [files EXCEPT ![f] = unshareWith(files[f], userId)]
    /\ UNCHANGED <<users, now, procs, resp, issued, lastRotated, pwChanged>>

SoftDelete(f) ==
    /\ files[f].exists
    /\ ~files[f].isDeleted
    /\ files' = [files EXCEPT ![f] = softDelete(files[f])]
    /\ UNCHANGED <<users, now, procs, resp, issued, lastRotated, pwChanged>>

Restore(f) ==
    /\ files[f].exists
    /\ files[f].isDeleted
    /\ files' = [files EXCEPT ![f] = restore(files[f])]
    /\ UNCHANGED <<users, now, procs, resp, issued, lastRotated, pwChanged>>

\* a caller asks file.hasAccess(userId, permission) and gets the answer
HasAccess(f, userId, permission) ==
    /\ files[f].exists
    /\ resp' = [NoResp EXCEPT !.op = "hasAccess", !.uid = userId, !.cls = permission,
                   !.code = IF hasAccess(files[f], userId, permission)
                            THEN "true" ELSE "false"]
    /\ UNCHANGED <<users, now, procs, issued, lastRotated, pwChanged, files>>

FileNext ==
    \/ \E f \in FileIds, o \in ActorIds, pub \in BOOLEAN : Upload(f, o, pub) /\ Untracked
    \/ \E f \in FileIds, u \in ActorIds, p \in Permissions : ShareWith(f, u, p) /\ Untracked
    \/ \E f \in FileIds, u \in ActorIds : UnshareWith(f, u) /\ Untracked
    \/ \E f \in FileIds : SoftDelete(f) /\ Untracked
    \/ \E f \in FileIds : Restore(f) /\ Untracked
    \/ \E f \in FileIds, u \in ActorIds \cup {NoId}, p \in Permissions : HasAccess(f, u, p) /\ Untracked

FileSpec == Init /\ [][FileNext]_vars

(***************************************************************************)
(* ShareSpec: two writers that each load a File document, change its       *)
(* sharedWith list with shareWith or unshareWith, and save.  Both methods  *)
(* assign this.sharedWith, so save() writes the whole list of the writer's *)
(* copy; the schema sets no optimistic concurrency.                        *)
(***************************************************************************)
\* the users the writers of ShareSpec grant to and revoke from
ShareUsers == {2, 3}

\* a writer up to the await of its save: File.findById, then shareWith
LoadAndShare(p, f, userId, permission) ==
    /\ procs[p].pc = "idle"
    /\ files[f].exists
    /\ procs' = [procs EXCEPT ![p] =
                    [IdleProc EXCEPT
                        !.pc = "edited", !.file = f,
                        !.doc = shareWith(files[f], userId, permission),
                        !.edit = [kind |-> "share", user |-> userId,
                                  permission |-> permission]]]
    /\ UNCHANGED <<users, now, resp, issued, lastRotated, pwChanged, files>>

\* a writer up to the await of its save: File.findById, then unshareWith
LoadAndUnshare(p, f, userId) ==
    /\ procs[p].pc = "idle"
    /\ files[f].exists
    /\ procs' = [procs EXCEPT ![p] =
                    [IdleProc EXCEPT
                        !.pc = "edited", !.file = f,
                        !.doc = unshareWith(files[f], userId),
                        !.edit = [kind |-> "unshare", user |-> userId,
                                  permission |-> "none"]]]
    /\ UNCHANGED <<users, now, resp, issued, lastRotated, pwChanged, files>>

\* the writer's save: the modified path, sharedWith, is written as the copy has it
SaveFile(p) ==
    LET me == procs[p] IN
    /\ me.pc = "edited"
    /\ files' = [files EXCEPT ![me.file].sharedWith = me.doc.sharedWith]
    /\ resp' = [NoResp EXCEPT !.op = "saveShares", !.code = "OK", !.file = me.file,
                              !.raced = me.raced, !.edit = me.edit, !.other = me.other]
    /\ procs' = [q \in Procs |->
                    IF q = p THEN IdleProc
                    ELSE IF procs[q].pc = "edited" /\ procs[q].file = me.file
                    THEN [procs[q] EXCEPT !.raced = TRUE, !.other = me.edit]
                    ELSE procs[q]]
    /\ UNCHANGED <<users, now, issued, lastRotated, pwChanged>>

ShareNext ==
    \/ \E f \in FileIds : Upload(f, 1, FALSE) /\ Untracked
    \/ \E p \in Procs, f \in FileIds, u \in ShareUsers, perm \in Permissions :
           LoadAndShare(p, f, u, perm) /\ Untracked
    \/ \E p \in Procs, f \in FileIds, u \in ShareUsers : LoadAndUnshare(p, f, u) /\ Untracked
    \/ \E p \in Procs : SaveFile(p) /\ Untracked

ShareSpec == Init /\ [][ShareNext]_vars

(***************************************************************************)
(* RouteSpec: the file routes behind authenticate and optionalAuth, one    *)
(* request at a time, over the users that registered.                      *)
(***************************************************************************)
\* optionalAuth, but a token that does not verify is answered like authenticate does
optionalAuthStrict(token) ==
    LET a == authenticate(token) IN
    IF token = NullToken THEN [next |-> 1, code |-> "none", uid |-> NoId]
    ELSE IF a.code = "OK" THEN [next |-> 1, code |-> "none", uid |-> a.uid]
    ELSE [next |-> 0, code |-> a.code, uid |-> NoId]

\* middleware/auth.js optionalAuth: how often it calls next(), the code of the
\* response it sends ("none": it sends none), the user it attaches
optionalAuth(token) ==
    IF token = NullToken THEN [next |-> 1, code |-> "none", uid |-> NoId]
    ELSE LET v == verifyAccessToken(token, now) IN
         IF v.ok /\ users[token.userId].exists /\ users[token.userId].isActive
         THEN [next |-> 1, code |-> "none", uid |-> token.userId]
         ELSE [next |-> 1, code |-> "none", uid |-> NoId]

\* what a file route leaves behind: the code it answered with, the user it
\* acted for, the document of the file after it
FileOutcome(code, uid, file) == [code |-> code, uid |-> uid, file |-> file]

\* the bodies of PUT /:id: isPublic, and an owner key (NoId: the key is absent)
UpdateBodies == [isPublic : BOOLEAN, owner : UserIds \cup {NoId}]
\* RouteSpec: the account the database's operator promotes or deactivates, and
\* the account files are shared with; the other account stays a plain user
Staff == {2}
Grantees == {2}

\* POST /upload, the write to the bucket succeeding
uploadFile(token, f, isPublic) ==
    LET a == authenticate(token) IN
    IF a.code # "OK" THEN FileOutcome(a.code, NoId, files[f])
    ELSE FileOutcome("OK", a.uid,
             [NoFile EXCEPT !.exists = TRUE, !.owner = a.uid, !.isPublic = isPublic])

\* GET /, but the query has no 'sharedWith.user' alternative
listFilesNoShares(token) ==
    LET a == optionalAuth(token) IN
    {f \in FileIds :
        /\ files[f].exists
        /\ ~files[f].isDeleted
        /\ IF a.uid # NoId
           THEN \/ files[f].owner = a.uid
                \/ files[f].isPublic
           ELSE files[f].isPublic}

\* GET /: the ids of the documents the query matches
listFiles(token) ==
    LET a == optionalAuth(token) IN
    {f \in FileIds :
        /\ files[f].exists
        /\ ~files[f].isDeleted
        /\ IF a.uid # NoId
           THEN \/ files[f].owner = a.uid
                \/ findFrom(files[f].sharedWith, a.uid, 1) # 0
                \/ files[f].isPublic
           ELSE files[f].isPublic}

\* download, but a soft-deleted document is served like any other
downloadDeleted(token, f) ==
    LET a == optionalAuth(token)
        file == files[f] IN
    IF a.next = 0 THEN FileOutcome(a.code, NoId, file)
    ELSE IF ~file.exists THEN FileOutcome("NOT_FOUND", a.uid, file)
    ELSE IF a.uid = NoId
    THEN IF ~file.isPublic THEN FileOutcome("AUTH_REQUIRED", a.uid, file)
         ELSE FileOutcome("OK", a.uid, file)
    ELSE IF ~hasAccess(file, a.uid, "read") THEN FileOutcome("ACCESS_DENIED", a.uid, file)
    ELSE FileOutcome("OK", a.uid, file)

\* GET /:id/download, the object being in the bucket
download(token, f) ==
    LET a == optionalAuth(token)
        file == files[f] IN
    IF a.next = 0 THEN FileOutcome(a.code, NoId, file)
    ELSE IF ~file.exists \/ file.isDeleted THEN FileOutcome("NOT_FOUND", a.uid, file)
    ELSE IF a.uid = NoId
    THEN IF ~file.isPublic THEN FileOutcome("AUTH_REQUIRED", a.uid, file)
         ELSE FileOutcome("OK", a.uid, file)
    ELSE IF ~hasAccess(file, a.uid, "read") THEN FileOutcome("ACCESS_DENIED", a.uid, file)
    ELSE FileOutcome("OK", a.uid, file)

\* deleteFile, but any authenticated user may delete
deleteFileByAnyone(token, f) ==
    LET a == authenticate(token)
        file == files[f] IN
    IF a.code # "OK" THEN FileOutcome(a.code, NoId, file)
    ELSE IF ~file.exists \/ file.isDeleted THEN FileOutcome("NOT_FOUND", a.uid, file)
    ELSE FileOutcome("OK", a.uid, softDelete(file))

\* DELETE /:id
deleteFile(token, f) ==
    LET a == authenticate(token)
        file == files[f] IN
    IF a.code # "OK" THEN FileOutcome(a.code, NoId, file)
    ELSE IF ~file.exists \/ file.isDeleted THEN FileOutcome("NOT_FOUND", a.uid, file)
    ELSE IF a.uid # file.owner /\ users[a.uid].role # "admin"
    THEN FileOutcome("ACCESS_DENIED", a.uid, file)
    ELSE FileOutcome("OK", a.uid, softDelete(file))

\* updateFile, but owner is among the allowed updates
updateFileOwnerToo(token, f, body) ==
    LET a == authenticate(token)
        file == files[f] IN
    IF a.code # "OK" THEN FileOutcome(a.code, NoId, file)
    ELSE IF ~file.exists \/ file.isDeleted THEN FileOutcome("NOT_FOUND", a.uid, file)
    ELSE IF a.uid # file.owner /\ users[a.uid].role # "admin"
    THEN FileOutcome("ACCESS_DENIED", a.uid, file)
    ELSE FileOutcome("OK", a.uid,
             [file EXCEPT !.isPublic = body.isPublic,
                          !.owner = IF body.owner # NoId THEN body.owner ELSE @])

\* PUT /:id with a body that passes validation: of its keys only name,
\* description, isPublic and tags are assigned
updateFile(token, f, body) ==
    LET a == authenticate(token)
        file == files[f] IN
    IF a.code # "OK" THEN FileOutcome(a.code, NoId, file)
    ELSE IF ~file.exists \/ file.isDeleted THEN FileOutcome("NOT_FOUND", a.uid, file)
    ELSE IF a.uid # file.owner /\ users[a.uid].role # "admin"
    THEN FileOutcome("ACCESS_DENIED", a.uid, file)
    ELSE FileOutcome("OK", a.uid, [file EXCEPT !.isPublic = body.isPublic])

\* the file route answers: what the request met, and what came of it
FileAnswer(o, op, token, f, permission) ==
    LET a == authenticate(token) IN
    /\ files' = [files EXCEPT ![f] = o.file]
    /\ resp' = [NoResp EXCEPT
                   !.op = op, !.code = o.code, !.uid = o.uid, !.file = f,
                   !.cls = classAccess(token),
                   !.active = (a.code = "OK"),
                   !.gone = (files[f].exists /\ files[f].isDeleted),
                   !.access = (files[f].exists /\
                               hasAccess(files[f], IF a.code = "OK" THEN a.uid ELSE NoId,
                                         permission)),
                   !.isOwner = (a.code = "OK" /\ files[f].exists /\ files[f].owner = a.uid),
                   !.isAdmin = (a.code = "OK" /\ users[a.uid].role = "admin"),
                   !.wrote = (o.file # files[f])]
    /\ UNCHANGED <<users, now, procs, issued, lastRotated, pwChanged>>

UploadFile(token, f, isPublic) ==
    /\ ~files[f].exists
    /\ FileAnswer(uploadFile(token, f, isPublic), "upload", token, f, "write")

ListFiles(token) ==
    /\ resp' = [NoResp EXCEPT !.op = "list", !.code = "OK",
                              !.uid = optionalAuth(token).uid,
                              !.cls = classAccess(token),
                              !.active = (authenticate(token).code = "OK"),
                              !.files = listFiles(token)]
    /\ UNCHANGED <<users, now, procs, issued, lastRotated, pwChanged, files>>

Download(token, f) ==
    FileAnswer(download(token, f), "download", token, f, "read")

DeleteFile(token, f) ==
    FileAnswer(deleteFile(token, f), "delete", token, f, "write")

UpdateFile(token, f, body) ==
    FileAnswer(updateFile(token, f, body), "update", token, f, "write")

\* the role of an account is set to admin by the database's operator
Promote(u) ==
    /\ users[u].exists
    /\ users[u].role = "user"
    /\ users' = [users EXCEPT ![u].role = "admin"]
    /\ UNCHANGED <<now, procs, resp, issued, lastRotated, pwChanged, files>>

\* after an upload: who created the file
AfterUpload(f) ==
    ghost' = [ghost EXCEPT !.uploader[f] = IF resp'.code = "OK" THEN resp'.uid ELSE @]

RouteNext ==
    \/ \E e \in Emails : Register(e, SignupPassword) /\ Untracked
    \/ \E u \in Staff : Promote(u) /\ Untracked
    \/ \E u \in Staff : Deactivate(u) /\ Untracked
    \/ \E t \in Presentable, f \in FileIds, pub \in BOOLEAN :
           UploadFile(t, f, pub) /\ AfterUpload(f) /\ UNCHANGED <<env, client>>
    \/ \E t \in Presentable : ListFiles(t) /\ Untracked
    \/ \E t \in Presentable, f \in FileIds : Download(t, f) /\ Untracked
    \/ \E t \in Presentable, f \in FileIds : DeleteFile(t, f) /\ Untracked
    \/ \E t \in Presentable, f \in FileIds, b \in UpdateBodies : UpdateFile(t, f, b) /\ Untracked
    \/ \E f \in FileIds, u \in Grantees, p \in Permissions : ShareWith(f, u, p) /\ Untracked
    \/ \E f \in FileIds, u \in Grantees : UnshareWith(f, u) /\ Untracked
    \/ now < RouteMaxTime /\ Tick /\ Untracked

RouteSpec == Init /\ [][RouteNext]_vars

(***************************************************************************)
(* ClientSpec: the browser.  The server is its environment: an API request *)
(* is answered 200 or 401 and a POST /auth/refresh succeeds or fails.      *)
(***************************************************************************)
Backend == UNCHANGED <<users, now, procs, resp, issued, lastRotated, pwChanged, files>>

\* setAuthCookies sets both cookies with httpOnly: true
HttpOnly == TRUE

\* Cookies.get(name): js-cookie reads document.cookie, which leaves the
\* httpOnly cookies out
CookiesGet(c) == c.cookies /\ ~HttpOnly

\* Cookies.remove(name): a script cannot overwrite an httpOnly cookie
CookiesRemove(c) == c.cookies /\ HttpOnly

\* Cookies.get('refreshToken') || localStorage.getItem('refreshToken')
refreshTokenOf(c) == CookiesGet(c) \/ c.local

\* AuthProvider.login: the server set the cookies, nothing is stored
ClientLogin ==
    /\ ~client.authenticated
    /\ client' = [client EXCEPT !.authenticated = TRUE, !.cookies = TRUE]
    /\ Backend

\* the provider's login that also calls storeTokens(data.tokens)
ClientLoginStored ==
    /\ ~client.authenticated
    /\ client' = [client EXCEPT !.authenticated = TRUE, !.cookies = TRUE, !.local = TRUE]
    /\ Backend

\* AuthProvider.logout: the server clears its cookies, the provider its state
ClientLogout ==
    /\ client.authenticated
    /\ client' = [client EXCEPT !.authenticated = FALSE, !.cookies = FALSE, !.local = FALSE]
    /\ Backend

\* api.<method>(...) of a logged-in client
ClientSend(q) ==
    /\ client.authenticated
    /\ client.reqs[q].pc = "idle"
    /\ client' = [client EXCEPT !.reqs[q] =
                      [NoRequest EXCEPT !.pc = "sent", !.sends = 1]]
    /\ Backend

\* the response interceptor's first argument: a 2xx passes through
ClientAnswerOk(q) ==
    /\ client.reqs[q].pc = "sent"
    /\ client' = [client EXCEPT !.reqs[q].pc = "resolved", !.reqs[q].status = 200]
    /\ Backend

\* the response interceptor on a 401, up to its await of POST /auth/refresh
interceptor401(c, r) ==
    IF ~r.retry /\ refreshTokenOf(c)
    THEN [r EXCEPT !.retry = TRUE, !.pc = "refreshing", !.refreshes = @ + 1]
    ELSE [r EXCEPT !.retry = TRUE, !.pc = "rejected", !.status = 401]

ClientAnswer401(q) ==
    /\ client.reqs[q].pc = "sent"
    /\ client' = [client EXCEPT !.reqs[q] =
                      [interceptor401(client, @) EXCEPT !.byCookie =
                          IF client.reqs[q].retry THEN @
                          ELSE client.authenticated /\ client.cookies /\ ~client.local]]
    /\ Backend

\* the refresh answered with new tokens: they are stored and the original
\* request is sent again
ClientRefreshOk(q) ==
    /\ client.reqs[q].pc = "refreshing"
    /\ client' = [client EXCEPT !.cookies = TRUE, !.local = TRUE,
                                !.reqs[q].pc = "sent", !.reqs[q].sends = @ + 1]
    /\ Backend

\* the refresh failed: the catch removes the tokens and dispatches
\* auth:logout, whose listener resets the provider
ClientRefreshFailed(q) ==
    /\ client.reqs[q].pc = "refreshing"
    /\ client' = [client EXCEPT !.authenticated = FALSE,
                                !.cookies = CookiesRemove(client),
                                !.local = FALSE,
                                !.reqs[q].pc = "rejected", !.reqs[q].status = 401,
                                !.reqs[q].cleared = TRUE, !.reqs[q].event = TRUE]
    /\ Backend

\* the caller is done with a settled request
ClientSettle(q) ==
    /\ client.reqs[q].pc \in {"resolved", "rejected"}
    /\ client' = [client EXCEPT !.reqs[q] = NoRequest]
    /\ Backend

ClientNext ==
    \/ ClientLogin /\ UNCHANGED <<env, ghost>>
    \/ ClientLoginStored /\ UNCHANGED <<env, ghost>>
    \/ ClientLogout /\ UNCHANGED <<env, ghost>>
    \/ \E q \in ClientReqs : ClientSend(q) /\ UNCHANGED <<env, ghost>>
    \/ \E q \in ClientReqs : ClientAnswerOk(q) /\ UNCHANGED <<env, ghost>>
    \/ \E q \in ClientReqs : ClientAnswer401(q) /\ UNCHANGED <<env, ghost>>
    \/ \E q \in ClientReqs : ClientRefreshOk(q) /\ UNCHANGED <<env, ghost>>
    \/ \E q \in ClientReqs : ClientRefreshFailed(q) /\ UNCHANGED <<env, ghost>>
    \/ \E q \in ClientReqs : ClientSettle(q) /\ UNCHANGED <<env, ghost>>

ClientSpec == Init /\ [][ClientNext]_vars

(***************************************************************************)
(* HeaderSpec: requests as they arrive, with an authorization header and   *)
(* an accessToken cookie, at a route behind authenticate (GET /profile)    *)
(* and at one behind optionalAuth (GET /files).                            *)
(***************************************************************************)
\* req.headers.authorization: absent ("none"), "Bearer <token>" (NullToken:
\* nothing follows the space), or another scheme
Schemes == {"none", "Bearer", "Basic"}

\* the requests: cookie = NullToken when there is no accessToken cookie
Requests ==
    {req \in [scheme : Schemes, token : Presentable, cookie : Presentable] :
        req.scheme = "none" => req.token = NullToken}

\* the token taken from the header: authHeader.substring(7) under 'Bearer '
bearerOf(req) == IF req.scheme = "Bearer" THEN req.token ELSE NullToken

\* the token of the request, but the cookie is looked at first
extractTokenCookieFirst(req) ==
    IF req.cookie # NullToken THEN req.cookie ELSE bearerOf(req)

\* the token authenticate and optionalAuth go on with
extractToken(req) ==
    IF bearerOf(req) # NullToken THEN bearerOf(req) ELSE req.cookie

\* GET /profile
ProfileRequest(req) ==
    LET token == extractToken(req) IN
    /\ Answer(getProfile(token),
              [NoResp EXCEPT !.op = "profile", !.cls = classAccess(token),
                             !.bearer = bearerOf(req), !.cookie = req.cookie,
                              !.bearerCls = classAccess(bearerOf(req)),
                              !.cookieCls = classAccess(req.cookie)])
    /\ UNCHANGED <<now, procs, lastRotated, pwChanged, files>>

\* GET /files
ListRequest(req) ==
    LET token == extractToken(req) IN
    /\ resp' = [NoResp EXCEPT !.op = "list", !.code = "OK",
                              !.uid = optionalAuth(token).uid,
                              !.cls = classAccess(token),
                              !.active = (authenticate(token).code = "OK"),
                              !.files = listFiles(token),
                              !.bearer = bearerOf(req), !.cookie = req.cookie,
                              !.bearerCls = classAccess(bearerOf(req)),
                              !.cookieCls = classAccess(req.cookie)]
    /\ UNCHANGED <<users, now, procs, issued, lastRotated, pwChanged, files>>

HeaderNext ==
    \/ \E e \in Members : Register(e, SignupPassword) /\ Untracked
    \/ \E e \in Members : Login(e, SignupPassword) /\ Untracked
    \/ \E u \in UserIds : Deactivate(u) /\ Untracked
    \/ \E f \in FileIds, pub \in BOOLEAN : Upload(f, 1, pub) /\ Untracked
    \/ \E req \in Requests : ProfileRequest(req) /\ Untracked
    \/ \E req \in Requests : ListRequest(req) /\ Untracked
    \/ Tick /\ Untracked

HeaderSpec == Init /\ [][HeaderNext]_vars

(***************************************************************************)
(* StormSpec: one browser whose provider stores the pair it is handed,     *)
(* its requests answered by authenticate and its interceptor's refreshes   *)
(* by the server's POST /refresh.                                          *)
(***************************************************************************)
Settled == \A q \in ClientReqs : client.reqs[q].pc = "idle"

\* storeTokens(data.tokens) after a successful register or login
Stored(tokens) ==
    [client EXCEPT !.authenticated = TRUE, !.cookies = TRUE, !.local = TRUE,
                   !.tokens = tokens]

\* AuthProvider.register against POST /register
StormRegister(email) ==
    /\ ~client.authenticated /\ Settled
    /\ Register(email, SignupPassword)
    /\ resp'.code = "OK"
    /\ client' = Stored(resp'.tokens)

\* AuthProvider.login against POST /login
StormLogin(email) ==
    /\ ~client.authenticated /\ Settled
    /\ Login(email, SignupPassword)
    /\ resp'.code = "OK"
    /\ client' = Stored(resp'.tokens)

\* the request interceptor puts the stored access token in the header
StormSend(q) ==
    /\ client.authenticated
    /\ client.reqs[q].pc = "idle"
    /\ client' = [client EXCEPT !.reqs[q] =
                      [NoRequest EXCEPT !.pc = "sent", !.sends = 1,
                                        !.access = client.tokens.accessToken]]
    /\ Backend

\* authenticate lets the request through
StormAnswerOk(q) ==
    /\ client.reqs[q].pc = "sent"
    /\ authenticate(client.reqs[q].access).code = "OK"
    /\ client' = [client EXCEPT !.reqs[q].pc = "resolved", !.reqs[q].status = 200]
    /\ Backend

\* authenticate answers 401 and the response interceptor runs up to its await
StormAnswer401(q) ==
    LET r == client.reqs[q]
        uid == r.access.userId IN
    /\ r.pc = "sent"
    /\ authenticate(r.access).code # "OK"
    /\ client' = [client EXCEPT !.reqs[q] =
                      [interceptor401(client, r) EXCEPT
                          !.refresh = IF r.retry THEN @ ELSE client.tokens.refreshToken,
                          !.held = IF r.retry THEN @
                                   ELSE /\ client.tokens.refreshToken # NullToken
                                        /\ users[uid].refreshToken = client.tokens.refreshToken]]
    /\ Backend

\* POST /auth/refresh with the token the interceptor read, and the
\* interceptor from its await on: store the new pair and send the original
\* request again, or clear the tokens and dispatch auth:logout
StormRefresh(q) ==
    LET r == client.reqs[q] IN
    /\ r.pc = "refreshing"
    /\ Refresh(r.refresh)
    /\ client' =
           IF resp'.code = "OK"
           THEN [client EXCEPT !.cookies = TRUE, !.local = TRUE, !.tokens = resp'.tokens,
                               !.reqs[q].pc = "sent", !.reqs[q].sends = @ + 1,
                               !.reqs[q].access = resp'.tokens.accessToken]
           ELSE [client EXCEPT !.authenticated = FALSE,
                               !.cookies = CookiesRemove(client),
                               !.local = FALSE, !.tokens = NoTokens,
                               !.reqs[q].pc = "rejected", !.reqs[q].status = 401,
                               !.reqs[q].cleared = TRUE, !.reqs[q].event = TRUE,
                               !.reqs[q].cls = resp'.cls]

StormNext ==
    \/ \E e \in Members : StormRegister(e) /\ UNCHANGED <<env, ghost>>
    \/ \E e \in Members : StormLogin(e) /\ UNCHANGED <<env, ghost>>
    \/ \E q \in ClientReqs : StormSend(q) /\ UNCHANGED <<env, ghost>>
    \/ \E q \in ClientReqs : StormAnswerOk(q) /\ UNCHANGED <<env, ghost>>
    \/ \E q \in ClientReqs : StormAnswer401(q) /\ UNCHANGED <<env, ghost>>
    \/ \E q \in ClientReqs : StormRefresh(q) /\ UNCHANGED <<env, ghost>>
    \/ \E q \in ClientReqs : ClientSettle(q) /\ UNCHANGED <<env, ghost>>
    \/ Tick /\ Untracked

StormSpec == Init /\ [][StormNext]_vars

(***************************************************************************)
(* ProfileSpec: PUT /profile.  A body is a JSON object: the keys it has    *)
(* and a value for each.                                                   *)
(***************************************************************************)
allowedUpdates == {"name", "preferences"}

\* the keys a body may carry: the two that are allowed, and fields of the
\* user document a client has no business writing
BodyKeys == allowedUpdates \cup
            {"role", "email", "password", "isActive", "googleId", "refreshToken"}

\* name "A" fails isLength({ min: 2 }), theme "neon" fails isIn([...])
Names == {"Al", "A"}
Themes == {"dark", "neon"}

Body(keys, name, theme) ==
    [k \in keys |->
        CASE k = "name" -> name
          [] k = "preferences" -> theme
          [] k = "role" -> "admin"
          [] k = "email" -> "b@x.com"
          [] k = "password" -> hashPassword("Hacked1x")
          [] k = "isActive" -> TRUE
          [] k = "googleId" -> "g2"
          [] k = "refreshToken" -> ForgedToken]

ProfileBodies == {Body(keys, n, t) : keys \in SUBSET BodyKeys, n \in Names, t \in Themes}

\* the bodies the requests of ProfileSpec carry: at most one key that is not
\* allowed
SentBodies == {b \in ProfileBodies : Cardinality(DOMAIN b \ allowedUpdates) <= 1}

\* validationResult(req).isEmpty()
validProfile(body) ==
    /\ "name" \in DOMAIN body => body["name"] # "A"
    /\ "preferences" \in DOMAIN body => body["preferences"] # "neon"

\* Object.assign(doc, updates)
assign(doc, updates) ==
    [f \in DOMAIN doc |-> IF f \in DOMAIN updates THEN updates[f] ELSE doc[f]]

\* PUT /profile, but every key of the body is assigned
updateProfileAnyKey(token, body) ==
    LET a == authenticate(token) IN
    IF a.code # "OK" THEN Outcome(a.code, NoId, users, NoTokens)
    ELSE IF ~validProfile(body) THEN Outcome("VALIDATION_FAILED", a.uid, users, NoTokens)
    ELSE Outcome("OK", a.uid, [users EXCEPT ![a.uid] = assign(@, body)], NoTokens)

\* PUT /profile
updateProfile(token, body) ==
    LET a == authenticate(token)
        updates == [k \in DOMAIN body \cap allowedUpdates |-> body[k]] IN
    IF a.code # "OK" THEN Outcome(a.code, NoId, users, NoTokens)
    ELSE IF ~validProfile(body) THEN Outcome("VALIDATION_FAILED", a.uid, users, NoTokens)
    ELSE Outcome("OK", a.uid, [users EXCEPT ![a.uid] = assign(@, updates)], NoTokens)

UpdateProfile(token, body) ==
    /\ Answer(updateProfile(token, body),
              [NoResp EXCEPT !.op = "updateProfile", !.cls = classAccess(token),
                             !.extra = (DOMAIN body \ allowedUpdates # {})])
    /\ UNCHANGED <<now, procs, lastRotated, pwChanged, files>>

ProfileNext ==
    \/ \E e \in Emails : Register(e, SignupPassword) /\ Untracked
    \/ \E u \in Staff : Deactivate(u) /\ Untracked
    \/ \E t \in Presentable, b \in SentBodies : UpdateProfile(t, b) /\ Untracked

ProfileSpec == Init /\ [][ProfileNext]_vars

(***************************************************************************)
(* Properties.                                                             *)
(***************************************************************************)
Authenticated == {"logout", "profile", "changePassword"}

\* C1 (Spec): a refresh that presents the refresh token an earlier successful
\* refresh consumed is answered INVALID_REFRESH_TOKEN.
C1_ReplayRejected ==
    (resp.op = "refresh" /\ resp.replay) => resp.code = "INVALID_REFRESH_TOKEN"

\* C2 (RaceSpec): of two refresh handlers in flight together with the same
\* refresh token, the one that answers after the other succeeded does not
\* succeed too.
C2_NoDoubleRefresh ==
    (resp.op = "refresh" /\ resp.raced) => resp.code # "OK"

\* C3 (Spec): an access token this server issued, presented to authenticate
\* after its lifetime elapsed, is answered TOKEN_EXPIRED.
C3_ExpiredIsTokenExpired ==
    (resp.op \in Authenticated /\ resp.cls = "expired") => resp.code = "TOKEN_EXPIRED"

\* a grant of this permission for this user is in the list
HoldsGrant(file, userId, permission) ==
    \E i \in 1..Len(file.sharedWith) :
        file.sharedWith[i] = [user |-> userId, permission |-> permission]

\* C4 (FileSpec): for a file that is not soft-deleted, write access is had
\* exactly by the owner and the holders of a write grant, read access exactly
\* by the owner, the holders of a read or write grant and, if the file is
\* public, everyone; the anonymous caller never has write access.
C4_AuthorizationMatrix ==
    \A f \in FileIds :
        (files[f].exists /\ ~files[f].isDeleted) =>
            /\ \A a \in ActorIds \cup {NoId} :
                /\ hasAccess(files[f], a, "write") <=>
                       (a = files[f].owner \/ HoldsGrant(files[f], a, "write"))
                /\ hasAccess(files[f], a, "read") <=>
                       \/ a = files[f].owner
                       \/ HoldsGrant(files[f], a, "read")
                       \/ HoldsGrant(files[f], a, "write")
                       \/ files[f].isPublic
            /\ ~hasAccess(files[f], NoId, "write")

\* the owner, also listed with a read grant, was just told it may write
C4_Witness ==
    \E f \in FileIds :
        /\ files[f].exists /\ ~files[f].isDeleted /\ ~files[f].isPublic
        /\ HoldsGrant(files[f], files[f].owner, "read")
        /\ \E a \in ActorIds : a # files[f].owner /\ HoldsGrant(files[f], a, "write")
        /\ resp.op = "hasAccess" /\ resp.uid = files[f].owner
        /\ resp.cls = "write" /\ resp.code = "true"

\* C5 (FileSpec): for a soft-deleted file hasAccess is false for every caller
\* and both permissions.
C5_DeletedFailsClosed ==
    \A f \in FileIds :
        (files[f].exists /\ files[f].isDeleted) =>
            \A a \in ActorIds \cup {NoId}, p \in Permissions : ~hasAccess(files[f], a, p)

\* C6 (Spec): after change-password was called for a user with the user's
\* current password, a refresh token issued to that user before the call is
\* answered INVALID_REFRESH_TOKEN.
C6_PasswordChangeEndsSessions ==
    (resp.op = "refresh" /\ resp.stale) => resp.code = "INVALID_REFRESH_TOKEN"

\* C7 (Spec): change-password, once authenticate let the request of a user
\* with a password hash through, answers INVALID_CURRENT_PASSWORD exactly when
\* the supplied current password does not verify against the stored hash, and
\* succeeds otherwise.
C7_ChangePasswordOutcome ==
    (/\ resp.op = "changePassword"
     /\ resp.code \in {"OK", "INVALID_CURRENT_PASSWORD"}
     /\ resp.found) =>
        /\ (resp.code = "INVALID_CURRENT_PASSWORD") <=> ~resp.pwdOk
        /\ resp.pwdOk => resp.code = "OK"

\* C8 as claimed (Spec): a login whose password is not the account's password
\* is answered INVALID_CREDENTIALS, whether the account exists or not.
C8_SameErrorAlways ==
    (resp.op = "login" /\ ~resp.pwdOk) => resp.code = "INVALID_CREDENTIALS"

\* C8 as amended (Spec): a login for an unknown e-mail, and a login with a
\* wrong password for an active account, are both answered
\* INVALID_CREDENTIALS; a login for a deactivated account is answered
\* ACCOUNT_DEACTIVATED whatever the password.
C8_SameErrorUnlessDeactivated ==
    resp.op = "login" =>
        /\ ~resp.found => resp.code = "INVALID_CREDENTIALS"
        /\ (resp.found /\ resp.active /\ ~resp.pwdOk) => resp.code = "INVALID_CREDENTIALS"
        /\ (resp.found /\ ~resp.active) => resp.code = "ACCOUNT_DEACTIVATED"

\* a wrong password for an existing, active account was just refused
C8_Witness ==
    /\ resp.op = "login" /\ resp.found /\ resp.active /\ ~resp.pwdOk
    /\ resp.code = "INVALID_CREDENTIALS"

\* C9 as claimed (RaceSpec): a refresh that presents a token and issues no
\* pair is answered INVALID_REFRESH_TOKEN.
C9_AnyFailureIsInvalidRefreshToken ==
    (resp.op = "refresh" /\ resp.cls # "none" /\ resp.code # "OK") =>
        resp.code = "INVALID_REFRESH_TOKEN"

\* C9 as amended (RaceSpec): a refresh with no token is answered
\* NO_REFRESH_TOKEN; one whose token verifies and equals the stored value of
\* the user document the handler loaded is answered ACCOUNT_DEACTIVATED when
\* that document is inactive and succeeds when it is active; every other
\* refresh is answered INVALID_REFRESH_TOKEN.
C9_RefreshErrorCodes ==
    resp.op = "refresh" =>
        /\ (resp.code = "NO_REFRESH_TOKEN") <=> (resp.cls = "none")
        /\ (resp.code = "ACCOUNT_DEACTIVATED") <=>
               (resp.cls = "live" /\ resp.matched /\ ~resp.docActive)
        /\ (resp.code = "OK") <=> (resp.cls = "live" /\ resp.matched /\ resp.docActive)
        /\ resp.code \in {"NO_REFRESH_TOKEN", "ACCOUNT_DEACTIVATED", "OK",
                          "INVALID_REFRESH_TOKEN"}

\* a token that still verifies but is no longer the stored one was refused,
\* for a user deactivated meanwhile
C9_Witness ==
    /\ resp.op = "refresh" /\ resp.cls = "live" /\ ~resp.matched /\ ~resp.docActive
    /\ resp.uid # NoId
    /\ resp.code = "INVALID_REFRESH_TOKEN"

\* C10 (Spec): no token pair is returned for, and no handler behind
\* authenticate runs as, a user whose active flag is false.
C10_DeactivatedRefused ==
    (\/ resp.tokens # NoTokens
     \/ (resp.op \in Authenticated /\ resp.code \in {"OK", "INVALID_CURRENT_PASSWORD"}))
        => resp.active

\* C11 (type/secret isolation): whatever the two secrets are configured to,
\* the equal ones included, verifyRefreshToken rejects every token that
\* generateAccessToken produced and verifyAccessToken rejects every token that
\* generateRefreshToken produced.
C11_TypeSecretIsolation ==
    /\ \A p \in issued :
           /\ ~verifyRefreshToken(p.accessToken, now).ok
           /\ ~verifyAccessToken(p.refreshToken, now).ok
    /\ (resp.op = "verifyRefreshToken" /\ resp.token \in IssuedAccess)
           => resp.code = "Invalid refresh token"
    /\ (resp.op = "verifyAccessToken" /\ resp.token \in IssuedRefresh)
           => resp.code = "Invalid access token"

\* both secrets are the same string, and an unexpired access token was handed
\* to verifyRefreshToken
C11_Witness ==
    /\ env.JWT_SECRET = env.JWT_REFRESH_SECRET
    /\ resp.op = "verifyRefreshToken"
    /\ resp.token \in IssuedAccess
    /\ now < resp.token.exp
    /\ resp.code = "Invalid refresh token"

\* C12 (issued access tokens authenticate their user): in the second in which
\* register, login, refresh or the Google callback returned a token pair for
\* user u, and with u still active, the access token of the pair verifies to
\* userId u and a GET /profile carrying it answers with u's record; and a
\* GET /profile that carried an issued, unexpired access token was refused
\* only because the account is deactivated.
C12_AccessTokenAuthenticates ==
    /\ (/\ resp.tokens # NoTokens
        /\ resp.tokens.accessToken.iat = now
        /\ users[resp.uid].isActive)
           => LET token == resp.tokens.accessToken
                  o == getProfile(token) IN
              /\ verifyAccessToken(token, now).ok
              /\ token.userId = resp.uid
              /\ o.code = "OK"
              /\ o.uid = resp.uid
              /\ o.users[o.uid].exists
    /\ (resp.op = "profile" /\ resp.cls = "live")
           => \/ resp.code = "OK" /\ users[resp.uid].exists
              \/ resp.code = "ACCOUNT_DEACTIVATED"

\* a@x.com registered and a GET /profile with its access token returned the record
C12_Witness ==
    /\ resp.op = "profile"
    /\ resp.code = "OK"
    /\ users[resp.uid].email = "a@x.com"
    /\ users[resp.uid].password # Null
    /\ users[resp.uid].googleId = Null

\* C13 (single stored slot): the refresh token stored on u is the one the
\* last successful register, login, refresh or Google callback for u returned;
\* a refresh succeeds only when the presented token is the stored one; and a
\* refresh token issued by an earlier login of u is rejected once a later
\* login of u has succeeded.
C13_SingleStoredSlot ==
    /\ resp.tokens # NoTokens => users[resp.uid].refreshToken = resp.tokens.refreshToken
    /\ (resp.op = "refresh" /\ resp.code = "OK") => resp.matched
    /\ (resp.op = "refresh" /\ resp.superseded) => resp.code # "OK"

\* C14 (rotation issues a new pair): the refresh token a successful refresh
\* returns differs from the one it was presented with, however soon after the
\* issuance of the presented one the refresh happens.
C14_RotationIsNew ==
    (resp.op = "refresh" /\ resp.code = "OK") => resp.tokens.refreshToken # lastRotated

\* C15 (logout ends the refresh session): a refresh for u that arrives after
\* a successful logout of u, and before u's next successful login, register
\* or Google callback, fails.
C15_LogoutEndsSession ==
    (resp.op = "refresh" /\ resp.afterLogout) => resp.code # "OK"

\* C16 (logout is idempotent): a logout carrying an issued, unexpired access
\* token answers OK, also when the request before it was a successful logout
\* of the same user, and the stored refresh token is null after each.
C16_LogoutIdempotent ==
    /\ (resp.op = "logout" /\ resp.cls = "live") => resp.code = "OK"
    /\ (resp.op = "logout" /\ resp.code = "OK")
           => users[resp.uid].refreshToken = NullToken

\* the second of two logouts in a row of the same user answered OK
C16_Witness ==
    /\ ghost.again
    /\ resp.op = "logout"
    /\ resp.cls = "live"
    /\ resp.code = "OK"
    /\ users[resp.uid].refreshToken = NullToken

\* C17 (the Google callback links an existing e-mail): whenever a user with
\* e-mail e exists and no user has Google id g, a callback reporting (g, e)
\* that runs with no other request interleaved ends with that same user,
\* carrying Google id g and isEmailVerified true, and with no user added.
C17_LinksExistingEmail ==
    \A g \in GoogleIds, e \in Emails :
        (findByEmail(e) # {} /\ findByGoogleId(g) = {})
            => LET o == googleCallback(g, e) IN
               /\ o.code = "OK"
               /\ o.uid \in findByEmail(e)
               /\ o.users[o.uid].email = e
               /\ o.users[o.uid].googleId = g
               /\ o.users[o.uid].isEmailVerified
               /\ {u \in UserIds : o.users[u].exists} = Existing

\* a callback found the account that had registered with a password by its
\* e-mail and linked it
C17_Witness ==
    /\ resp.op = "google"
    /\ resp.code = "OK"
    /\ resp.found
    /\ users[resp.uid].password # Null
    /\ users[resp.uid].googleId # Null
    /\ users[resp.uid].isEmailVerified

\* C18 (identity uniqueness): under every interleaving of register and
\* Google-callback handlers, no two users share an e-mail and no two users
\* share a Google id.
C18_IdentityUnique ==
    \A u, v \in Existing :
        u # v => /\ users[u].email # users[v].email
                 /\ users[u].googleId # Null => users[u].googleId # users[v].googleId

\* two accounts exist and a save was refused by an index
C18_Witness ==
    /\ Cardinality(Existing) = 2
    /\ resp.raced
    /\ resp.code # "OK"

\* C19 (every user can authenticate): a user without a password hash has a
\* Google id.
C19_PasswordOrGoogleId ==
    \A u \in Existing : users[u].password = Null => users[u].googleId # Null

\* an account made by the Google callback: no password hash, a Google id
C19_Witness ==
    \E u \in Existing : users[u].password = Null /\ users[u].googleId # Null

\* C20 (duplicate registration is USER_EXISTS): a register for an e-mail that
\* belongs to a user, be it since before the call or since a concurrent
\* register or Google callback saved first, answers 409 USER_EXISTS and
\* creates no user.
C20_DuplicateIsUserExists ==
    (resp.op = "register" /\ (resp.found \/ resp.raced))
        => /\ resp.code = "USER_EXISTS"
           /\ resp.uid = NoId
           /\ resp.tokens = NoTokens

\* C21 (authenticate gates the handler): the handler behind authenticate runs,
\* with the user attached, only if a token was presented, it is an unexpired
\* access token this server issued, and the user it names exists and is
\* active; no token answers NO_TOKEN, a token that fails verification
\* INVALID_TOKEN or TOKEN_EXPIRED, an inactive user ACCOUNT_DEACTIVATED, and
\* then no user is attached and the handler writes nothing.
C21_AuthenticateGates ==
    /\ \A token \in Presentable :
           LET a == authenticate(token)
               cls == classAccess(token)
               good == /\ cls = "live"
                       /\ users[token.userId].exists
                       /\ users[token.userId].isActive IN
           /\ a.code = "OK" <=> good
           /\ a.code = "OK" => a.uid = token.userId
           /\ cls = "none" => a.code = "NO_TOKEN"
           /\ cls \in {"foreign", "expired"} => a.code \in {"INVALID_TOKEN", "TOKEN_EXPIRED"}
           /\ (cls = "live" /\ ~users[token.userId].isActive) => a.code = "ACCOUNT_DEACTIVATED"
           /\ a.code # "OK" =>
                  /\ a.uid = NoId
                  /\ logout(token).users = users
                  /\ \A c \in Passwords, n \in Passwords :
                         changePassword(token, c, n).users = users
    /\ (resp.op \in Authenticated /\ resp.uid # NoId) => (resp.cls = "live" /\ resp.active)

\* a request with an issued, unexpired access token of a deactivated user was
\* turned away
C21_Witness ==
    /\ resp.op \in Authenticated
    /\ resp.cls = "live"
    /\ resp.code = "ACCOUNT_DEACTIVATED"
    /\ resp.uid = NoId

\* the grants of userId in a sharedWith list, in the list's order
GrantsOf(shares, userId) ==
    LET Mine(share) == share.user = userId IN SelectSeq(shares, Mine)

\* C26 (at most one grant per user): after any sequence of shareWith and
\* unshareWith on a resource uploaded with no grants, sharedWith holds at most
\* one grant for each user, and after shareWith(u, p) the single grant for u
\* has permission p.
C26_OneGrantPerUser ==
    \A f \in FileIds :
        files[f].exists =>
            /\ \A u \in ActorIds : Len(GrantsOf(files[f].sharedWith, u)) <= 1
            /\ \A u \in ActorIds, p \in Permissions :
                   GrantsOf(shareWith(files[f], u, p).sharedWith, u)
                       = <<[user |-> u, permission |-> p]>>

\* user 2 holds a read grant next to another user's grant, and sharing with
\* user 2 again, for write, leaves user 2 one grant, for write
C26_Witness ==
    \E f \in FileIds :
        /\ files[f].exists
        /\ Len(files[f].sharedWith) = 2
        /\ GrantsOf(files[f].sharedWith, 2) = <<[user |-> 2, permission |-> "read"]>>
        /\ GrantsOf(shareWith(files[f], 2, "write").sharedWith, 2)
               = <<[user |-> 2, permission |-> "write"]>>

\* C27 (unshareWith is an idempotent no-op when there is nothing to revoke):
\* unshareWith(u) leaves the list as it is when u holds no grant, gives the
\* same list applied twice as applied once, and never removes the grant of
\* another user.
C27_UnshareIdempotent ==
    \A f \in FileIds, u \in ActorIds :
        files[f].exists =>
            LET once == unshareWith(files[f], u) IN
            /\ GrantsOf(files[f].sharedWith, u) = <<>> => once = files[f]
            /\ unshareWith(once, u) = once
            /\ GrantsOf(once.sharedWith, u) = <<>>
            /\ \A v \in ActorIds \ {u} :
                   GrantsOf(once.sharedWith, v) = GrantsOf(files[f].sharedWith, v)

\* user 3 holds a grant, user 2 holds none: unshareWith(2) has nothing to revoke
C27_Witness ==
    \E f \in FileIds :
        /\ files[f].exists
        /\ GrantsOf(files[f].sharedWith, 3) # <<>>
        /\ GrantsOf(files[f].sharedWith, 2) = <<>>
        /\ unshareWith(files[f], 2) = files[f]

\* the codes authenticate answers with when it turns a request away
AuthErrors == {"NO_TOKEN", "INVALID_TOKEN", "TOKEN_EXPIRED", "USER_NOT_FOUND",
               "ACCOUNT_DEACTIVATED", "AUTH_ERROR"}

\* C22 (optionalAuth never fails the request): for every token it calls next()
\* exactly once and sends no response of its own; it attaches a user exactly
\* when the token is an issued unexpired access token of an existing active
\* user, and the routes behind it went on without a user otherwise.
C22_OptionalAuthNeverFails ==
    /\ \A token \in Presentable :
           LET o == optionalAuth(token)
               good == /\ classAccess(token) = "live"
                       /\ users[token.userId].exists
                       /\ users[token.userId].isActive IN
           /\ o.next = 1
           /\ o.code = "none"
           /\ o.uid # NoId <=> good
           /\ good => o.uid = token.userId
    /\ resp.op \in {"list", "download"} =>
           /\ resp.code \notin AuthErrors
           /\ resp.uid # NoId <=> (resp.cls = "live" /\ resp.active)

\* a list request with an expired access token went on as an anonymous one
C22_Witness ==
    /\ resp.op = "list"
    /\ resp.cls = "expired"
    /\ resp.uid = NoId
    /\ resp.code = "OK"

\* C23 (every file operation is guarded by the authorization matrix): a
\* download is served only to a caller for whom hasAccess(read) held at the
\* check, and an update or a delete is carried out only for a caller for whom
\* hasAccess(write) held at the check.
C23_GuardedByMatrix ==
    (resp.op \in {"download", "update", "delete"} /\ resp.code = "OK") => resp.access

\* C23, as the routes have it: a download is served only to a caller for whom
\* hasAccess(read) held at the check; an update or a delete is carried out
\* only for the owner or an admin, whatever grants there are.
C23_GuardedByOwnerOrAdmin ==
    /\ (resp.op = "download" /\ resp.code = "OK") => resp.access
    /\ (resp.op \in {"update", "delete"} /\ resp.code = "OK")
           => (resp.isOwner \/ resp.isAdmin)
    /\ (resp.op \in {"update", "delete"} /\ resp.wrote) => resp.code = "OK"

\* an admin who neither owns the file nor holds a write grant deleted it
C23_Witness ==
    /\ resp.op = "delete"
    /\ resp.code = "OK"
    /\ resp.isAdmin
    /\ ~resp.isOwner
    /\ ~resp.access
    /\ files[resp.file].isDeleted

\* C24 (soft-deleted resources are invisible): of a soft-deleted file, no list
\* returns it, every download, update and delete by an authenticated caller
\* answers not found and writes nothing, and no route or sharing call clears
\* the flag.
C24_DeletedInvisible ==
    \A f \in FileIds :
        (files[f].exists /\ files[f].isDeleted) =>
            /\ \A token \in Presentable :
                   LET a == authenticate(token) IN
                   /\ f \notin listFiles(token)
                   /\ download(token, f) = FileOutcome("NOT_FOUND", optionalAuth(token).uid, files[f])
                   /\ deleteFile(token, f) =
                          FileOutcome(IF a.code = "OK" THEN "NOT_FOUND" ELSE a.code, a.uid, files[f])
                   /\ \A b \in UpdateBodies :
                          updateFile(token, f, b) =
                              FileOutcome(IF a.code = "OK" THEN "NOT_FOUND" ELSE a.code,
                                          a.uid, files[f])
            /\ \A u \in UserIds, p \in Permissions :
                   /\ shareWith(files[f], u, p).isDeleted
                   /\ unshareWith(files[f], u).isDeleted

\* the owner asked for the file they had deleted and was told it is not found
C24_Witness ==
    /\ resp.op = "download"
    /\ resp.gone
    /\ resp.isOwner
    /\ resp.code = "NOT_FOUND"

\* C25 (ownership is immutable): the owner of a file is the user whose upload
\* created it, after any sequence of update, download, delete, share and
\* unshare by anyone.
C25_OwnerImmutable ==
    \A f \in FileIds : files[f].exists => files[f].owner = ghost.uploader[f]

\* an admin who is not the owner updated the file, and the owner is still the
\* uploader
C25_Witness ==
    /\ resp.op = "update"
    /\ resp.code = "OK"
    /\ resp.wrote
    /\ ~resp.isOwner
    /\ files[resp.file].owner = ghost.uploader[resp.file]
    /\ files[resp.file].owner # resp.uid

\* the list shows the edit: the grant it made, or no grant for the user it revoked
Reflects(shares, e) ==
    IF e.kind = "share"
    THEN GrantsOf(shares, e.user) = <<[user |-> e.user, permission |-> e.permission]>>
    ELSE GrantsOf(shares, e.user) = <<>>

C29_NoPartialSuccess ==
    (resp.op \in {"register", "google"} /\ resp.code # "OK") => ~resp.wrote

\* C30 (ClientSpec): a request of a client whose login left its tokens in
\* HTTP-only cookies, once answered 401, has had a POST /auth/refresh sent
\* for it, is sent at most twice, and when the refresh failed (the request
\* ends rejected without a second send) the client's tokens were cleared and
\* auth:logout was dispatched.
C30_RefreshOn401 ==
    \A q \in ClientReqs :
        LET r == client.reqs[q] IN
            (r.byCookie /\ r.retry) =>
                /\ r.refreshes = 1
                /\ r.sends <= 2
                /\ (r.pc = "rejected" /\ r.sends = 1) => (r.cleared /\ r.event)

\* C31 (HeaderSpec): a request with a bearer header token is judged by that
\* token alone, whatever its cookie: authenticate answers what it answers for
\* the header token, optionalAuth attaches whom it attaches for the header
\* token, so an invalid header token fails (or yields no actor) even beside a
\* valid cookie; the cookie decides only when there is no bearer header token.
C31_HeaderBeforeCookie ==
    /\ \A req \in Requests :
           LET token == extractToken(req) IN
           IF bearerOf(req) # NullToken
           THEN /\ authenticate(token) = authenticate(req.token)
                /\ optionalAuth(token) = optionalAuth(req.token)
           ELSE /\ authenticate(token) = authenticate(req.cookie)
                /\ optionalAuth(token) = optionalAuth(req.cookie)
    /\ (resp.bearer # NullToken /\ resp.bearerCls # "live") =>
           /\ resp.uid = NoId
           /\ resp.op = "profile" => resp.code # "OK"
    /\ (resp.op \in {"profile", "list"} /\ resp.uid # NoId) =>
           IF resp.bearer # NullToken
           THEN resp.bearerCls = "live" /\ resp.uid = resp.bearer.userId
           ELSE resp.cookieCls = "live" /\ resp.uid = resp.cookie.userId

\* GET /profile with a forged or expired bearer token and the cookie of a live
\* session was turned away
C31_Witness ==
    /\ resp.op = "profile"
    /\ resp.bearer # NullToken
    /\ resp.bearerCls # "live"
    /\ resp.cookieCls = "live"
    /\ users[resp.cookie.userId].isActive
    /\ resp.code \in {"INVALID_TOKEN", "TOKEN_EXPIRED"}

\* C32 (Spec): no step changes the federated id of a user that has one; a
\* callback that reports g2 with the email of a user linked to g1 leaves g1.
C32_GoogleIdNeverReplaced ==
    [][\A u \in UserIds :
          (users[u].exists /\ users[u].googleId # Null) =>
              users'[u].googleId = users[u].googleId]_vars

\* C33 (RaceSpec): a refresh that fails, whatever token it presents and
\* whatever ran between its awaits, writes no user document and returns no
\* pair; the refresh token stored on an active user, while unexpired, is
\* still accepted by the next refresh.
C33_FailedRefreshChangesNothing ==
    /\ \A token \in Presentable :
           LET o == refreshRespond(arrival(token)) IN
           o.code # "OK" => (o.users = users /\ o.tokens = NoTokens)
    /\ \A p \in Procs :
           LET o == refreshRespond(procs[p]) IN
           (procs[p].pc = "loaded" /\ o.code # "OK") =>
               (o.users = users /\ o.tokens = NoTokens)
    /\ \A u \in UserIds :
           LET stored == users[u].refreshToken IN
           (users[u].exists /\ users[u].isActive /\ classRefresh(stored) = "live") =>
               refreshRespond(arrival(stored)).code = "OK"

\* the token an earlier refresh consumed was presented again and refused, and
\* the token stored since is still good for a refresh
C33_Witness ==
    /\ resp.op = "refresh"
    /\ resp.replay
    /\ resp.code = "INVALID_REFRESH_TOKEN"
    /\ resp.uid # NoId
    /\ users[resp.uid].refreshToken # NullToken
    /\ refreshRespond(arrival(users[resp.uid].refreshToken)).code = "OK"

\* C34 (StormSpec): a request whose first 401 met a client that held the
\* refresh token stored on the server does not end in auth:logout while the
\* token its interceptor posted is unexpired; the client keeps a token pair.
C34_NoLogoutOnConcurrent401 ==
    \A q \in ClientReqs :
        LET r == client.reqs[q] IN
        (r.held /\ r.cls = "live") => (~r.event /\ ~r.cleared)

\* C35 (Spec): an issued, unexpired access token is accepted exactly when its
\* user is active, whatever the stored refresh token and the password are: it
\* is still accepted after a logout or a password change emptied the refresh
\* slot, and it is answered ACCOUNT_DEACTIVATED as soon as the user is
\* deactivated.
C35_AccessIgnoresRefreshSlot ==
    /\ \A token \in IssuedAccess :
           LET a == authenticate(token)
               u == token.userId IN
           classAccess(token) = "live" =>
               IF users[u].isActive
               THEN a = [code |-> "OK", uid |-> u]
               ELSE a = [code |-> "ACCOUNT_DEACTIVATED", uid |-> NoId]
    /\ (resp.op \in Authenticated /\ resp.cls = "live") =>
           (resp.uid # NoId \/ resp.code = "ACCOUNT_DEACTIVATED")

\* GET /profile was served for an access token issued before the logout or
\* password change that emptied the user's refresh slot
C35_Witness ==
    /\ resp.op = "profile"
    /\ resp.cls = "live"
    /\ resp.code = "OK"
    /\ users[resp.uid].refreshToken = NullToken

\* the fields of a user document PUT /profile has no business with
Protected(doc) == [f \in DOMAIN doc \ allowedUpdates |-> doc[f]]

\* C36 (ProfileSpec): for every token and every request body, PUT /profile
\* leaves every field but name and preferences of the caller's document, and
\* every other user's document, as they were; a request that is refused
\* changes nothing.
C36_ProfileUpdateFrame ==
    /\ \A token \in Presentable, body \in ProfileBodies :
           LET o == updateProfile(token, body) IN
           /\ \A u \in UserIds :
                  /\ Protected(o.users[u]) = Protected(users[u])
                  /\ u # o.uid => o.users[u] = users[u]
           /\ o.code # "OK" => o.users = users
           /\ o.tokens = NoTokens
    /\ (resp.op = "updateProfile" /\ resp.code = "OK") =>
           (resp.cls = "live" /\ users[resp.uid].role = "user")

\* a body with a key that is not allowed was accepted and changed the name
C36_Witness ==
    /\ resp.op = "updateProfile"
    /\ resp.code = "OK"
    /\ resp.extra
    /\ users[resp.uid].name = "Al"
    /\ \E u \in UserIds : u # resp.uid /\ users[u].exists /\ users[u].name = "Ann"

\* C37 (RouteSpec): what GET / returns to a caller is exactly the set of
\* files that are not soft-deleted and that hasAccess grants the caller for
\* reading; to an anonymous caller (no token, or one optionalAuth attaches no
\* user for) that is exactly the public files that are not soft-deleted.
C37_ListAgreesWithHasAccess ==
    /\ \A token \in Presentable :
           LET actor == optionalAuth(token).uid
               Live == {f \in FileIds : files[f].exists /\ ~files[f].isDeleted} IN
           /\ listFiles(token) = {f \in Live : hasAccess(files[f], actor, "read")}
           /\ actor = NoId => listFiles(token) = {f \in Live : files[f].isPublic}
           /\ actor # NoId =>
                  listFiles(token) =
                      {f \in Live : \/ files[f].owner = actor
                                    \/ \E i \in 1..Len(files[f].sharedWith) :
                                           files[f].sharedWith[i].user = actor
                                    \/ files[f].isPublic}
    /\ resp.op = "list" => \A f \in resp.files : files[f].exists

\* a private file was listed to a user who does not own it and holds a grant
C37_Witness ==
    /\ resp.op = "list"
    /\ resp.uid # NoId
    /\ \E f \in resp.files :
           /\ ~files[f].isPublic /\ ~files[f].isDeleted
           /\ files[f].owner # resp.uid
           /\ findFrom(files[f].sharedWith, resp.uid, 1) # 0

====
